---- MODULE Spec2Model ----
(***************************************************************************)
(* SSHContainer: the per-user container registry (ContainerManager) and    *)
(* the session handler that uses it.                                       *)
(*                                                                         *)
(* The registry is the map cm.containers guarded by cm.containersMutex;    *)
(* the runtime (Docker) is modelled by the set of containers it holds, the *)
(* named volumes and the btrfs paths.  Every runtime call may be refused   *)
(* by the runtime; the refusals are drawn with \E in the actions.          *)
(* Time is counted in periods of the reaper's ticker.                      *)
(***************************************************************************)
EXTENDS Integers, FiniteSets, Sequences, TLC

\* ------------------------------------------------------------- bounds
NumSessions == 2          \* session handlers (each runs handleSession once)
MaxIdleTimeout == 1       \* the idle timeout is drawn from 0..MaxIdleTimeout
MaxNetworks == 2          \* len(cm.config.Networks) is drawn from 1..MaxNetworks
MaxTime == MaxIdleTimeout + 1
MaxAttempts == 2          \* password attempts the clients make in all
MaxWindows == 2           \* sizes the terminal of a client takes, the first included
MaxBytes == 2             \* bytes the clients write, frames the guests make, in all

Users == {"alice", "bob"}
Sessions == 1..NumSessions
None == 0                 \* no holder of a lock
Reaper == NumSessions + 1 \* the cleanupLoop goroutine, as a lock holder

\* id of the container an earlier daemon run left in the runtime for a user
LeftoverID(u) == IF u = "alice" THEN 0 - 1 ELSE 0 - 2

VARIABLES
    alive,          \* the daemon process runs (FALSE after os.Exit or a panic)
    panicked,       \* the process ended by a panic
    containers,     \* cm.containers: username -> UserContainer
    ucMutex,        \* holder of UserContainer.mutex of the entry of each username
    lockW,          \* holder of cm.containersMutex
    shutdownClosed, \* cm.shutdownChan is closed
    reaper,         \* cleanupLoop / cleanupIdleContainers: [pc, todo, cur, refused]
    shut,           \* Shutdown / CleanUpContainers: [pc, kind, todo, listed, refused]
    pc,             \* position of each session handler
    user,           \* sess.User() of each session
    cid,            \* containerID each handler got from GetOrCreateContainer
    acq,            \* the latest GetOrCreateContainer that went on to create:
                    \* [sess, id, result, calls, rmRefused, waiters]
    rt,             \* containers the runtime holds: [id, user, started]
    volumes,        \* users whose named volume sshcontainer-vfs-<user> exists
    fs,             \* /mnt/vfs/<user>: "absent", "subvol", or "dir" (a path
                    \* that exists and is no btrfs subvolume)
    now,            \* time.Now()
    idleTimeout,    \* cm.config.ContainerIdleTimeout
    networks,       \* len(cm.config.Networks)
    started,        \* ids for which ContainerStart succeeded
    rmCalls,        \* the calls of the latest removeContainer, in order: [call, ok]
    hs,             \* handleSession of each session: [isPty, exits, releases,
                    \* stream, reader, writer, resize, ctxDone, closed]
    auth,           \* authenticateUser: the calls and the POSTs so far, and the
                    \* latest call: [attempts, requests, sess, resp, result]
    size,           \* a size string of the configuration and what ParseSize
                    \* returns for it: [in, out]
    lk,             \* cm.containersMutex in detail: [readers, pending], the
                    \* holders of the read lock and the writer that waits for
                    \* them to leave
    io,             \* the bytes of each session: [sent, rpos, stdin, made,
                    \* pos, out, err]: the client wrote sent bytes, the writer
                    \* goroutine has read rpos of them and written stdin to the
                    \* exec; the guest made the frames made, the reader
                    \* goroutine has read pos of them and written out and err
                    \* to the SSH channel's stdout and stderr
    env,            \* the environments: [cont, exec], cont[id] the Env the
                    \* container id was created with, exec[s] the environment
                    \* the exec of session s runs with
    win             \* the window of each session: [client, ch, exec, initial,
                    \* failed]: the size of the client's terminal, the sizes
                    \* in winCh, the size the exec has (0: none yet), whether
                    \* the handler made its call for the initial size, and
                    \* whether a resize call failed

vars == <<alive, panicked, containers, ucMutex, lockW, shutdownClosed, reaper,
          shut, pc, user, cid, acq, rt, volumes, fs, now, idleTimeout, networks,
          started, rmCalls, hs, auth, size, lk, io, env, win>>

procVars == <<alive, panicked>>
regVars == <<containers, ucMutex, lockW>>
rtVars == <<rt, volumes, fs, started, rmCalls>>
sessVars == <<pc, user, cid, acq, hs>>
\* what the operations of the registry and of the session handlers leave as
\* it is: the configuration, the record of the authentications, and the
\* read side of cm.containersMutex (SpecLocks has the lock calls one by one),
\* and the bytes of the sessions (SpecPump has the copies)
cfgVars == <<idleTimeout, networks, auth, size, lk, io, env, win>>

\* ------------------------------------------------------------- helpers
\* no response of the OAuth2 endpoint yet
NoResponse == [err |-> FALSE, status |-> 0]

\* a byte count coef * 1024^exp
Bytes(coef, exp) == [coef |-> coef, exp |-> exp]

\* a session before any byte was written
NoBytes == [sent |-> 0, rpos |-> 0, stdin |-> <<>>, made |-> <<>>, pos |-> 0,
            out |-> <<>>, err |-> <<>>]

\* sess.Environ(): what the client of session s asked to have set; the
\* clients ask for different things
Environ(s) == {[name |-> "CLIENT", value |-> s]}

\* the ids a container can have
ContainerIDs == Sessions \cup {LeftoverID(u) : u \in Users}

\* no exec was opened; the containers left from an earlier run were made by
\* createContainer too
NoEnv == [cont |-> [id \in ContainerIDs |-> {}], exec |-> [s \in Sessions |-> {}]]

\* a createContainer that gives the container the environment of the call
CreateEnvOfCall(e) == e

\* container.Config.Env of createContainer: env := make([]string, 0), whatever
\* GetOrCreateContainer was called with
CreateEnv(e) == {}

\* the environment an exec runs with: that of its container and on top the
\* ExecOptions.Env of the call
ExecEnv(id, e) == env.cont[id] \cup e

\* ptyReq.Window, the size of the client's terminal at its PTY request
PtyWindow == 1

\* a session before any resize call
NoResize == [client |-> PtyWindow, ch |-> <<>>, exec |-> 0, initial |-> FALSE,
             failed |-> FALSE]

\* ParseSize was not called yet
NotParsed == [err |-> "pending", bytes |-> Bytes(0, 0)]

\* the size string "512M", as its characters
DefaultSize == <<"5", "1", "2", "M">>

\* the entry GetOrCreateContainer inserts
UserContainer(id, username, t) ==
    [ID |-> id, User |-> username, ActiveStreams |-> 1, LastUsed |-> t]

Exists(username) == username \in DOMAIN containers

MapInsert(m, k, v) == [x \in DOMAIN m \cup {k} |-> IF x = k THEN v ELSE m[x]]
MapDelete(m, k) == [x \in DOMAIN m \ {k} |-> m[x]]

RuntimeHas(id) == \E c \in rt : c.id = id

\* ContainerCreate called without a name: the runtime never refuses for a conflict
NameConflictNone(username) == FALSE

\* ContainerCreate refuses a name in use; the name passed is sshcontainer-<user>
NameConflict(username) == \E c \in rt : c.user = username

\* a write lock that excludes nobody
LockFreeAlways == TRUE

\* cm.containersMutex.Lock() returns
LockFree == lockW = None

Init ==
    /\ alive = TRUE
    /\ panicked = FALSE
    /\ containers = [x \in {} |-> 0]
    /\ ucMutex = [u \in Users |-> None]
    /\ lockW = None
    /\ shutdownClosed = FALSE
    /\ reaper = [pc |-> "wait", todo |-> {}, cur |-> "alice", refused |-> {}]
    /\ shut = [pc |-> "idle", kind |-> "signal", todo |-> {}, listed |-> {},
               refused |-> FALSE]
    /\ pc = [s \in Sessions |-> "init"]
    /\ user = [s \in Sessions |-> "alice"]
    /\ cid = [s \in Sessions |-> 0]
    /\ acq = [sess |-> 0, id |-> 0, result |-> "none", calls |-> {},
              rmRefused |-> FALSE, waiters |-> {}]
    /\ \E left \in {{}, {"alice"}} :
          /\ rt = {[id |-> LeftoverID(u), user |-> u, started |-> TRUE] : u \in left}
          /\ volumes = left
          /\ fs = [u \in Users |-> IF u \in left THEN "subvol" ELSE "absent"]
          /\ started = {LeftoverID(u) : u \in left}
    /\ now = 0
    /\ idleTimeout \in 0..MaxIdleTimeout
    /\ networks \in 1..MaxNetworks
    /\ rmCalls = <<>>
    /\ hs = [s \in Sessions |->
               [isPty |-> FALSE, exits |-> <<>>, releases |-> 0, stream |-> "none",
                reader |-> "none", writer |-> "none", resize |-> "none",
                ctxDone |-> FALSE, closed |-> FALSE]]
    /\ auth = [attempts |-> 0, requests |-> 0, sess |-> 0, resp |-> NoResponse,
               result |-> FALSE]
    /\ size = [in |-> DefaultSize, out |-> NotParsed]
    /\ lk = [readers |-> {}, pending |-> None]
    /\ io = [s \in Sessions |-> NoBytes]
    /\ env = NoEnv
    /\ win = [s \in Sessions |-> NoResize]

\* ------------------------------------------------- GetOrCreateContainer
\* handleSession is entered for a session of user u and calls GetOrCreateContainer
\* (the users are interchangeable: the first session is alice's)
StartSession(s, u) ==
    /\ alive /\ pc[s] = "init"
    /\ s = 1 => u = "alice"
    /\ pc' = [pc EXCEPT ![s] = "acquire"]
    /\ user' = [user EXCEPT ![s] = u]
    /\ UNCHANGED <<procVars, regVars, shutdownClosed, reaper, shut, cid, acq, hs,
                   rtVars, now, cfgVars>>

\* a reuse that stores 1 in the count instead of incrementing it
AcqReuseReset(s) ==
    LET u == user[s] IN
    /\ alive /\ pc[s] = "acquire"
    /\ LockFree
    /\ Exists(u)
    /\ ucMutex[u] = None
    /\ containers' = [containers EXCEPT ![u].ActiveStreams = 1, ![u].LastUsed = now]
    /\ cid' = [cid EXCEPT ![s] = containers[u].ID]
    /\ pc' = [pc EXCEPT ![s] = "exec"]
    /\ UNCHANGED <<procVars, ucMutex, lockW, shutdownClosed, reaper, shut, user,
                   acq, rtVars, now, cfgVars>>

\* Lock; the entry exists: count it, stamp it, return its ID; deferred Unlock
AcqReuse(s) ==
    LET u == user[s] IN
    /\ alive /\ pc[s] = "acquire"
    /\ LockFree
    /\ Exists(u)
    /\ ucMutex[u] = None
    /\ containers' = [containers EXCEPT
                         ![u].ActiveStreams = containers[u].ActiveStreams + 1,
                         ![u].LastUsed = now]
    /\ cid' = [cid EXCEPT ![s] = containers[u].ID]
    /\ pc' = [pc EXCEPT ![s] = "exec"]
    /\ UNCHANGED <<procVars, ucMutex, lockW, shutdownClosed, reaper, shut, user,
                   acq, rtVars, now, cfgVars>>

\* Lock; no entry: go on to createContainer, holding the write lock
AcqMiss(s) ==
    /\ alive /\ pc[s] = "acquire"
    /\ LockFree
    /\ ~Exists(user[s])
    /\ lockW' = s
    /\ acq' = [sess |-> s, id |-> 0, result |-> "running", calls |-> {},
               rmRefused |-> FALSE, waiters |-> {}]
    /\ pc' = [pc EXCEPT ![s] = "vfs"]
    /\ UNCHANGED <<procVars, containers, ucMutex, shutdownClosed, reaper, shut,
                   user, cid, rtVars, now, cfgVars>>

\* GetOrCreateContainer returns ("", err) after the calls cs: the deferred Unlock
\* runs; handleSession does sess.Exit(1) and returns
AcqFail(s, why, cs, refused) ==
    /\ acq' = [acq EXCEPT !.result = why, !.calls = @ \cup cs, !.rmRefused = refused]
    /\ lockW' = None
    /\ pc' = [pc EXCEPT ![s] = "failed"]

\* the calls CreateVFSMount makes when the call failAt is refused
VFSCalls(failAt) ==
    IF failAt \in {"stat", "subvolcreate", "qgroup"}
    THEN {"subvolume"} ELSE {"subvolume", "volume"}

VFSFailPoints == {"none", "stat", "subvolcreate", "qgroup", "volremove", "volcreate"}

\* the btrfs and volume operations CreateVFSMount carries out when the call
\* failAt is refused, for a user whose path / named volume exists or not:
\* "subvolcreate" only after os.Stat found nothing, "qgroup" (btrfs qgroup
\* limit) once the path is there, "volremove" only after
\* VolumeInspect found the volume, "volcreate" only after that removal worked
VFSOps(failAt, hasPath, hasVolume) ==
    (IF ~hasPath /\ failAt # "stat"
     THEN {IF failAt = "subvolcreate" THEN "subvolcreate refused" ELSE "subvolcreate"}
     ELSE {})
    \cup
    (IF failAt \notin {"stat", "subvolcreate"}
     THEN {IF failAt = "qgroup" THEN "qgroup refused" ELSE "qgroup"}
     ELSE {})
    \cup
    (IF hasVolume /\ failAt \in {"none", "volremove", "volcreate"}
     THEN {IF failAt = "volremove" THEN "volremove refused" ELSE "volremove"}
     ELSE {})
    \cup
    (CASE failAt = "none" -> {"volcreate"}
       [] failAt = "volcreate" -> {"volcreate refused"}
       [] OTHER -> {})

\* btrfs qgroup limit <quota> <path>, called without a qgroup id, is refused by
\* btrfs for a path that is not a subvolume
QgroupRefused(kind) == kind = "dir"

\* a CreateVFSMount that drops the result of btrfs qgroup limit
AcqCreateVFSMountIgnoreQuotaError(s, failAt) ==
    LET u == user[s]
        ops == VFSOps(failAt, fs[u] # "absent", u \in volumes) IN
    /\ alive /\ pc[s] = "vfs" /\ lockW = s
    /\ failAt = "subvolcreate" => fs[u] = "absent"
    /\ failAt = "volremove" => u \in volumes
    /\ failAt # "qgroup"
    /\ fs' = IF failAt \in {"stat", "subvolcreate"} THEN fs
             ELSE [fs EXCEPT ![u] = IF @ = "absent" THEN "subvol" ELSE @]
    /\ volumes' = CASE failAt = "none" -> volumes \cup {u}
                    [] failAt = "volcreate" -> volumes \ {u}
                    [] OTHER -> volumes
    /\ IF failAt = "none"
       THEN /\ pc' = [pc EXCEPT ![s] = "create"]
            /\ acq' = [acq EXCEPT !.calls = @ \cup VFSCalls(failAt) \cup ops]
            /\ UNCHANGED lockW
       ELSE AcqFail(s, "vfs", VFSCalls(failAt) \cup ops, FALSE)
    /\ UNCHANGED <<procVars, containers, ucMutex, shutdownClosed, reaper, shut,
                   user, cid, rt, started, rmCalls, now, cfgVars>>

\* a CreateVFSMount that goes on to VolumeCreate although the removal of the
\* existing volume was refused
AcqCreateVFSMountIgnoreRemoveError(s, failAt) ==
    LET u == user[s]
        ops == VFSOps(failAt, fs[u] = "subvol", u \in volumes) IN
    /\ alive /\ pc[s] = "vfs" /\ lockW = s
    /\ failAt = "subvolcreate" => fs[u] = "absent"
    /\ failAt = "volremove" => u \in volumes
    /\ fs' = IF failAt \in {"stat", "subvolcreate"} THEN fs
             ELSE [fs EXCEPT ![u] = "subvol"]
    /\ volumes' = CASE failAt \in {"none", "volremove"} -> volumes \cup {u}
                    [] failAt = "volcreate" -> volumes \ {u}
                    [] OTHER -> volumes
    /\ IF failAt \in {"none", "volremove"}
       THEN /\ pc' = [pc EXCEPT ![s] = "create"]
            /\ acq' = [acq EXCEPT !.calls = @ \cup VFSCalls(failAt) \cup ops
                                               \cup {"volcreate"}]
            /\ UNCHANGED lockW
       ELSE AcqFail(s, "vfs", VFSCalls(failAt) \cup ops, FALSE)
    /\ UNCHANGED <<procVars, containers, ucMutex, shutdownClosed, reaper, shut,
                   user, cid, rt, started, rmCalls, now, cfgVars>>

\* a CreateVFSMount that deletes the subvolume when a later call is refused
AcqCreateVFSMountRollback(s, failAt) ==
    LET u == user[s]
        ops == VFSOps(failAt, fs[u] = "subvol", u \in volumes) IN
    /\ alive /\ pc[s] = "vfs" /\ lockW = s
    /\ failAt = "subvolcreate" => fs[u] = "absent"
    /\ failAt = "volremove" => u \in volumes
    /\ fs' = CASE failAt = "stat" -> fs
                [] failAt = "none" -> [fs EXCEPT ![u] = "subvol"]
                [] OTHER -> [fs EXCEPT ![u] = "absent"]
    /\ volumes' = CASE failAt = "none" -> volumes \cup {u}
                    [] failAt = "volcreate" -> volumes \ {u}
                    [] OTHER -> volumes
    /\ IF failAt = "none"
       THEN /\ pc' = [pc EXCEPT ![s] = "create"]
            /\ acq' = [acq EXCEPT !.calls = @ \cup VFSCalls(failAt) \cup ops]
            /\ UNCHANGED lockW
       ELSE AcqFail(s, "vfs", VFSCalls(failAt) \cup ops, FALSE)
    /\ UNCHANGED <<procVars, containers, ucMutex, shutdownClosed, reaper, shut,
                   user, cid, rt, started, rmCalls, now, cfgVars>>

\* CreateVFSMount, the call failAt refused by the system ("none": all succeed):
\* os.Stat, btrfs subvolume create, btrfs qgroup limit, VolumeInspect,
\* VolumeRemove of an existing volume, VolumeCreate
AcqCreateVFSMount(s, failAt) ==
    LET u == user[s]
        ops == VFSOps(failAt, fs[u] # "absent", u \in volumes) IN
    /\ alive /\ pc[s] = "vfs" /\ lockW = s
    /\ failAt = "subvolcreate" => fs[u] = "absent"
    /\ failAt = "volremove" => u \in volumes
    /\ QgroupRefused(fs[u]) => failAt \in {"stat", "qgroup"}
    /\ fs' = IF failAt \in {"stat", "subvolcreate"} THEN fs
             ELSE [fs EXCEPT ![u] = IF @ = "absent" THEN "subvol" ELSE @]
    /\ volumes' = CASE failAt = "none" -> volumes \cup {u}
                    [] failAt = "volcreate" -> volumes \ {u}
                    [] OTHER -> volumes
    /\ IF failAt = "none"
       THEN /\ pc' = [pc EXCEPT ![s] = "create"]
            /\ acq' = [acq EXCEPT !.calls = @ \cup VFSCalls(failAt) \cup ops]
            /\ UNCHANGED lockW
       ELSE AcqFail(s, "vfs", VFSCalls(failAt) \cup ops, FALSE)
    /\ UNCHANGED <<procVars, containers, ucMutex, shutdownClosed, reaper, shut,
                   user, cid, rt, started, rmCalls, now, cfgVars>>

\* ContainerCreate with the name sshcontainer-<user>
AcqContainerCreate(s, ok) ==
    LET u == user[s] IN
    /\ alive /\ pc[s] = "create" /\ lockW = s
    /\ IF ok /\ ~NameConflict(u)
       THEN /\ rt' = rt \cup {[id |-> s, user |-> u, started |-> FALSE]}
            /\ env' = [env EXCEPT !.cont[s] = CreateEnv(Environ(s))]
            /\ acq' = [acq EXCEPT !.id = s, !.calls = @ \cup {"create"}]
            /\ pc' = [pc EXCEPT ![s] = IF networks > 1 THEN "network" ELSE "start"]
            /\ UNCHANGED lockW
       ELSE /\ AcqFail(s, "create", {"create"}, FALSE)
            /\ UNCHANGED <<rt, env>>
    /\ UNCHANGED <<procVars, containers, ucMutex, shutdownClosed, reaper, shut,
                   user, cid, volumes, fs, started, rmCalls, now, idleTimeout,
                   networks, auth, size, lk, io, win>>

\* a NetworkConnect failure that returns the error without removing the container
AcqNetworkConnectNoRollback(s, ok, rmOk) ==
    /\ alive /\ pc[s] = "network" /\ lockW = s
    /\ IF ok
       THEN /\ acq' = [acq EXCEPT !.calls = @ \cup {"netconnect"}]
            /\ pc' = [pc EXCEPT ![s] = "start"]
            /\ UNCHANGED lockW
       ELSE AcqFail(s, "network", {"netconnect"}, FALSE)
    /\ UNCHANGED <<procVars, containers, ucMutex, shutdownClosed, reaper, shut,
                   user, cid, rt, volumes, fs, started, rmCalls, now, cfgVars>>

\* NetworkConnect for cm.config.Networks[1:]; on a refusal ContainerRemove(Force)
\* is called and its result dropped (rmOk: the runtime removed the container)
AcqNetworkConnect(s, ok, rmOk) ==
    /\ alive /\ pc[s] = "network" /\ lockW = s
    /\ IF ok
       THEN /\ acq' = [acq EXCEPT !.calls = @ \cup {"netconnect"}]
            /\ pc' = [pc EXCEPT ![s] = "start"]
            /\ UNCHANGED <<lockW, rt>>
       ELSE /\ rt' = IF rmOk THEN {c \in rt : c.id # acq.id} ELSE rt
            /\ AcqFail(s, "network", {"netconnect", "remove"}, ~rmOk)
    /\ UNCHANGED <<procVars, containers, ucMutex, shutdownClosed, reaper, shut,
                   user, cid, volumes, fs, started, rmCalls, now, cfgVars>>

\* the sessions blocked in GetOrCreateContainer's Lock for a user
Waiting(u) == {w \in Sessions : pc[w] = "acquire" /\ user[w] = u}

\* an insert of the new entry made before ContainerStart and left on its failure
AcqStartInsertFirst(s, ok) ==
    LET u == user[s] IN
    /\ alive /\ pc[s] = "start" /\ lockW = s
    /\ containers' = MapInsert(containers, u, UserContainer(acq.id, u, now))
    /\ IF ok /\ RuntimeHas(acq.id)
       THEN /\ rt' = {IF c.id = acq.id THEN [c EXCEPT !.started = TRUE] ELSE c : c \in rt}
            /\ started' = started \cup {acq.id}
            /\ acq' = [acq EXCEPT !.result = "ok", !.calls = @ \cup {"start"},
                                  !.waiters = Waiting(u)]
            /\ cid' = [cid EXCEPT ![s] = acq.id]
            /\ lockW' = None
            /\ pc' = [pc EXCEPT ![s] = "exec"]
       ELSE /\ AcqFail(s, "start", {"start"}, FALSE)
            /\ UNCHANGED <<rt, started, cid>>
    /\ UNCHANGED <<procVars, ucMutex, shutdownClosed, reaper, shut, user, volumes,
                   fs, rmCalls, now, cfgVars>>

\* ContainerStart, then the insert of the new entry with ActiveStreams 1
AcqStart(s, ok) ==
    LET u == user[s] IN
    /\ alive /\ pc[s] = "start" /\ lockW = s
    /\ IF ok /\ RuntimeHas(acq.id)
       THEN /\ rt' = {IF c.id = acq.id THEN [c EXCEPT !.started = TRUE] ELSE c : c \in rt}
            /\ started' = started \cup {acq.id}
            /\ containers' = MapInsert(containers, u, UserContainer(acq.id, u, now))
            /\ acq' = [acq EXCEPT !.result = "ok", !.calls = @ \cup {"start"},
                                  !.waiters = Waiting(u)]
            /\ cid' = [cid EXCEPT ![s] = acq.id]
            /\ lockW' = None
            /\ pc' = [pc EXCEPT ![s] = "exec"]
       ELSE /\ AcqFail(s, "start", {"start"}, FALSE)
            /\ UNCHANGED <<rt, started, containers, cid>>
    /\ UNCHANGED <<procVars, ucMutex, shutdownClosed, reaper, shut, user, volumes,
                   fs, rmCalls, now, cfgVars>>

\* ---------------------------------------------------- ReleaseContainer
\* a Release that forgets the decrement
DecrementNone(n) == n

\* ct.ActiveStreams--
Decrement(n) == n - 1

\* a Release that deletes the entry when its count reaches 0
ReleaseContainerDeleteAtZero(username) ==
    /\ lockW = None
    /\ IF Exists(username)
       THEN /\ ucMutex[username] = None
            /\ containers' = IF containers[username].ActiveStreams = 1
                             THEN MapDelete(containers, username)
                             ELSE [containers EXCEPT
                                      ![username].ActiveStreams = @ - 1,
                                      ![username].LastUsed = now]
       ELSE UNCHANGED containers

\* RLock, the lookup, the update under the entry's mutex, RUnlock
ReleaseContainer(username) ==
    /\ lockW = None
    /\ IF Exists(username)
       THEN /\ ucMutex[username] = None
            /\ containers' = [containers EXCEPT
                   ![username].ActiveStreams = Decrement(containers[username].ActiveStreams),
                   ![username].LastUsed = now]
       ELSE UNCHANGED containers

\* ------------------------------------------------------- handleSession
\* ExecInContainer succeeds: the pumps are started, the handler waits in select
ExecInContainer(s) ==
    /\ alive /\ pc[s] = "exec"
    /\ \E c \in rt : c.id = cid[s] /\ c.started
    /\ pc' = [pc EXCEPT ![s] = "pump"]
    /\ env' = [env EXCEPT !.exec[s] = ExecEnv(cid[s], Environ(s))]
    /\ UNCHANGED <<procVars, regVars, shutdownClosed, reaper, shut, user, cid, acq,
                   rtVars, now, idleTimeout, networks, auth, size, lk, io, win>>

\* ExecInContainer fails: sess.Exit(1), return; the deferred Release runs
ExecFails(s) ==
    /\ alive /\ pc[s] = "exec"
    /\ ReleaseContainer(user[s])
    /\ pc' = [pc EXCEPT ![s] = "done"]
    /\ UNCHANGED <<procVars, ucMutex, lockW, shutdownClosed, reaper, shut, user,
                   cid, acq, rtVars, now, cfgVars>>

\* the select returns (outputErr or sess.Context().Done()): the deferred
\* stream.Close and Release run
SessionEnds(s) ==
    /\ alive /\ pc[s] = "pump"
    /\ ReleaseContainer(user[s])
    /\ pc' = [pc EXCEPT ![s] = "done"]
    /\ UNCHANGED <<procVars, ucMutex, lockW, shutdownClosed, reaper, shut, user,
                   cid, acq, rtVars, now, cfgVars>>

\* ------------------------------------------------------ removeContainer
\* a call removeContainer makes and whether it was carried out
Call(name, ok) == [call |-> name, ok |-> ok]

\* a removeContainer that removes the named volume before the container
removeContainerVolumeFirst(username, crOk, vrOk) ==
    IF Exists(username) /\ crOk /\ RuntimeHas(containers[username].ID)
    THEN /\ rt' = {c \in rt : c.id # containers[username].ID}
         /\ volumes' = IF vrOk THEN volumes \ {username} ELSE volumes
         /\ containers' = MapDelete(containers, username)
         /\ rmCalls' = <<Call("VolumeRemove", vrOk), Call("ContainerRemove", TRUE),
                         Call("delete", TRUE)>>
    ELSE /\ volumes' = IF Exists(username) /\ vrOk THEN volumes \ {username}
                                                   ELSE volumes
         /\ UNCHANGED <<rt, containers>>
         /\ rmCalls' = IF Exists(username)
                       THEN <<Call("VolumeRemove", vrOk), Call("ContainerRemove", FALSE)>>
                       ELSE <<>>

\* a removeContainer that deletes the entry although ContainerRemove failed
removeContainerDropOnError(username, crOk, vrOk) ==
    IF Exists(username) /\ crOk /\ RuntimeHas(containers[username].ID)
    THEN /\ rt' = {c \in rt : c.id # containers[username].ID}
         /\ volumes' = IF vrOk THEN volumes \ {username} ELSE volumes
         /\ containers' = MapDelete(containers, username)
         /\ rmCalls' = <<Call("ContainerRemove", TRUE), Call("VolumeRemove", vrOk),
                         Call("delete", TRUE)>>
    ELSE /\ UNCHANGED <<rt, volumes>>
         /\ containers' = MapDelete(containers, username)
         /\ rmCalls' = IF Exists(username)
                       THEN <<Call("ContainerRemove", FALSE)>> ELSE <<>>

\* a removeContainer that removes the container and keeps the entry
removeContainerKeepsEntry(username, crOk, vrOk) ==
    IF Exists(username) /\ crOk /\ RuntimeHas(containers[username].ID)
    THEN /\ rt' = {c \in rt : c.id # containers[username].ID}
         /\ volumes' = IF vrOk THEN volumes \ {username} ELSE volumes
         /\ UNCHANGED containers
         /\ rmCalls' = <<Call("ContainerRemove", TRUE), Call("VolumeRemove", vrOk)>>
    ELSE /\ UNCHANGED <<rt, volumes, containers>>
         /\ rmCalls' = IF Exists(username)
                       THEN <<Call("ContainerRemove", FALSE)>> ELSE <<>>

\* ContainerRemove(ct.ID, Force, RemoveVolumes), RemoveVFSMount, delete: crOk and
\* vrOk say whether the runtime carries out ContainerRemove and VolumeRemove
\* (RemoveVFSMount drops the result of VolumeRemove)
removeContainer(username, crOk, vrOk) ==
    IF Exists(username) /\ crOk /\ RuntimeHas(containers[username].ID)
    THEN /\ rt' = {c \in rt : c.id # containers[username].ID}
         /\ volumes' = IF vrOk THEN volumes \ {username} ELSE volumes
         /\ containers' = MapDelete(containers, username)
         /\ rmCalls' = <<Call("ContainerRemove", TRUE), Call("VolumeRemove", vrOk),
                         Call("delete", TRUE)>>
    ELSE /\ UNCHANGED <<rt, volumes, containers>>
         /\ rmCalls' = IF Exists(username)
                       THEN <<Call("ContainerRemove", FALSE)>> ELSE <<>>

\* ------------------------------------- cleanupLoop, cleanupIdleContainers
\* an idle test that lets one more ticker period pass
IdleCondLate(uc) == uc.ActiveStreams = 0 /\ now - uc.LastUsed > idleTimeout + 1

\* an idle test that looks at the age only
IdleCondAgeOnly(uc) == now - uc.LastUsed > idleTimeout

\* uc.ActiveStreams == 0 && time.Since(uc.LastUsed) > timeout
IdleCond(uc) == uc.ActiveStreams = 0 /\ now - uc.LastUsed > idleTimeout

\* case <-ticker.C: a ticker period has passed; cleanupIdleContainers is called,
\* takes cm.containersMutex.Lock() and starts the range over the entries
ReaperTick ==
    /\ alive /\ reaper.pc = "wait"
    /\ now < MaxTime
    /\ LockFree
    /\ now' = now + 1
    /\ lockW' = Reaper
    /\ reaper' = [reaper EXCEPT !.pc = "scan", !.todo = DOMAIN containers]
    /\ UNCHANGED <<procVars, containers, ucMutex, shutdownClosed, shut, sessVars,
                   rtVars, cfgVars>>

\* case <-cm.shutdownChan: return
ReaperStop ==
    /\ alive /\ reaper.pc = "wait"
    /\ shutdownClosed
    /\ reaper' = [reaper EXCEPT !.pc = "stopped"]
    /\ UNCHANGED <<procVars, regVars, shutdownClosed, shut, sessVars, rtVars, now,
                   cfgVars>>

\* one iteration of the range: uc.mutex.Lock() and the idle test
ReaperCheck(u) ==
    /\ alive /\ reaper.pc = "scan" /\ lockW = Reaper
    /\ u \in reaper.todo /\ Exists(u)
    /\ ucMutex[u] = None
    /\ IF IdleCond(containers[u])
       THEN /\ ucMutex' = [ucMutex EXCEPT ![u] = Reaper]
            /\ reaper' = [reaper EXCEPT !.pc = "remove", !.cur = u]
       ELSE /\ reaper' = [reaper EXCEPT !.todo = @ \ {u}]
            /\ UNCHANGED ucMutex
    /\ UNCHANGED <<procVars, containers, lockW, shutdownClosed, shut, sessVars,
                   rtVars, now, cfgVars>>

\* cm.removeContainer(ctx, username), its error logged; uc.mutex.Unlock().
\* reaper.refused: the ids whose removal by the reaper failed
ReaperRemove(crOk, vrOk) ==
    /\ alive /\ reaper.pc = "remove" /\ lockW = Reaper
    /\ removeContainer(reaper.cur, crOk, vrOk)
    /\ ucMutex' = [ucMutex EXCEPT ![reaper.cur] = None]
    /\ reaper' = [reaper EXCEPT
                      !.pc = "scan", !.todo = @ \ {reaper.cur},
                      !.refused = IF Exists(reaper.cur)
                                  THEN IF reaper.cur \in DOMAIN containers'
                                       THEN @ \cup {containers[reaper.cur].ID}
                                       ELSE @ \ {containers[reaper.cur].ID}
                                  ELSE @]
    /\ UNCHANGED <<procVars, lockW, shutdownClosed, shut, sessVars, fs, started,
                   now, cfgVars>>

\* the range is over: the deferred Unlock runs
ReaperUnlock ==
    /\ alive /\ reaper.pc = "scan" /\ lockW = Reaper
    /\ reaper.todo \cap DOMAIN containers = {}
    /\ lockW' = None
    /\ reaper' = [reaper EXCEPT !.pc = "wait", !.todo = {}]
    /\ UNCHANGED <<procVars, containers, ucMutex, shutdownClosed, shut, sessVars,
                   rtVars, now, cfgVars>>

\* --------------------------------------------- Shutdown, CleanUpContainers
\* Shutdown(): close(cm.shutdownChan), which panics on a closed channel.
\* kind "signal": the signal handler of Run; kind "api": Server.Shutdown
ShutdownCall(kind) ==
    /\ alive
    /\ kind = "signal" => shut.pc = "idle"
    /\ IF shutdownClosed
       THEN /\ alive' = FALSE
            /\ panicked' = TRUE
            /\ UNCHANGED <<shutdownClosed, shut>>
       ELSE /\ shutdownClosed' = TRUE
            /\ shut' = [shut EXCEPT !.pc = "list", !.kind = kind]
            /\ UNCHANGED <<alive, panicked>>
    /\ UNCHANGED <<regVars, reaper, sessVars, rtVars, now, cfgVars>>

\* ContainerList(All, label de.mc8051.sshcontainer=true)
CleanupList(ok) ==
    /\ alive /\ shut.pc = "list"
    /\ shut' = IF ok
               THEN [shut EXCEPT !.pc = "remove",
                                 !.todo = {c.user : c \in rt},
                                 !.listed = {c.id : c \in rt}]
               ELSE [shut EXCEPT !.pc = "remove", !.refused = TRUE]
    /\ UNCHANGED <<procVars, regVars, shutdownClosed, reaper, sessVars, rtVars,
                   now, cfgVars>>

\* one iteration of the loop: removeContainer(ctx, username), no lock held
CleanupRemove(u, crOk, vrOk) ==
    /\ alive /\ shut.pc = "remove"
    /\ u \in shut.todo
    /\ removeContainer(u, crOk, vrOk)
    /\ shut' = [shut EXCEPT !.todo = @ \ {u},
                            !.refused = @ \/ (Exists(u) /\ ~crOk)]
    /\ UNCHANGED <<procVars, ucMutex, lockW, shutdownClosed, reaper, sessVars, fs,
                   started, now, cfgVars>>

\* CleanUpContainers and Shutdown return: the signal handler calls os.Exit(0),
\* Server.Shutdown returns nil
ShutdownReturn ==
    /\ alive /\ shut.pc = "remove" /\ shut.todo = {}
    /\ shut' = [shut EXCEPT !.pc = "done"]
    /\ alive' = (shut.kind # "signal")
    /\ UNCHANGED <<panicked, regVars, shutdownClosed, reaper, sessVars, rtVars,
                   now, cfgVars>>

\* Shutdown is called by the signal handler of Run, the only caller in server.go.
\* The streams, pumps and exit status of the handlers (hs) are left out here;
\* SpecSession has them.
Next ==
    \/ \E s \in Sessions, u \in Users : StartSession(s, u)
    \/ \E s \in Sessions : AcqReuse(s) /\ UNCHANGED hs
    \/ \E s \in Sessions : AcqMiss(s) /\ UNCHANGED hs
    \/ \E s \in Sessions, f \in VFSFailPoints : AcqCreateVFSMount(s, f) /\ UNCHANGED hs
    \/ \E s \in Sessions, ok \in BOOLEAN : AcqContainerCreate(s, ok) /\ UNCHANGED hs
    \/ \E s \in Sessions, ok \in BOOLEAN, rmOk \in BOOLEAN :
          AcqNetworkConnect(s, ok, rmOk) /\ UNCHANGED hs
    \/ \E s \in Sessions, ok \in BOOLEAN : AcqStart(s, ok) /\ UNCHANGED hs
    \/ \E s \in Sessions : ExecInContainer(s) /\ UNCHANGED hs
    \/ \E s \in Sessions : ExecFails(s) /\ UNCHANGED hs
    \/ \E s \in Sessions : SessionEnds(s) /\ UNCHANGED hs
    \/ ReaperTick
    \/ ReaperStop
    \/ \E u \in Users : ReaperCheck(u)
    \/ \E crOk \in BOOLEAN, vrOk \in BOOLEAN : ReaperRemove(crOk, vrOk)
    \/ ReaperUnlock
    \/ ShutdownCall("signal")
    \/ \E ok \in BOOLEAN : CleanupList(ok)
    \/ \E u \in Users, crOk \in BOOLEAN, vrOk \in BOOLEAN : CleanupRemove(u, crOk, vrOk)
    \/ ShutdownReturn

Spec == Init /\ [][Next]_vars

\* ------------------------------------- handleSession with its streams and tasks
\* hs[s].exits: the codes handleSession passed to sess.Exit; releases: its calls
\* of ReleaseContainer; stream: the exec's HijackedResponse; reader, writer: the
\* two io.Copy goroutines ("run", or their result "nil" / "err"); resize: the
\* goroutine ranging over winCh; ctxDone: sess.Context() is cancelled; closed:
\* the SSH channel of the session is closed (sess reads return EOF, winCh is closed)

\* GetOrCreateContainer and, when it returns an error, sess.Exit(1) and return
SessAcquire(s) ==
    /\ \/ AcqReuse(s)
       \/ AcqMiss(s)
       \/ \E f \in VFSFailPoints : AcqCreateVFSMount(s, f)
       \/ \E ok \in BOOLEAN : AcqContainerCreate(s, ok)
       \/ \E ok \in BOOLEAN, rmOk \in BOOLEAN : AcqNetworkConnect(s, ok, rmOk)
       \/ \E ok \in BOOLEAN : AcqStart(s, ok)
    /\ hs' = IF pc'[s] = "failed"
             THEN [hs EXCEPT ![s].exits = Append(@, 1), ![s].closed = TRUE]
             ELSE hs

\* ExecInContainer succeeds; defer stream.Close(); with a PTY the resize
\* goroutine is started; the reader and the writer goroutine are started
SessExec(s, isPty) ==
    /\ ExecInContainer(s)
    /\ hs' = [hs EXCEPT ![s].isPty = isPty, ![s].stream = "open",
                        ![s].reader = "run", ![s].writer = "run",
                        ![s].resize = IF isPty THEN "run" ELSE "none"]

\* the return of handleSession after a successful Acquire: the deferred
\* stream.Close() (when the exec was opened) and ReleaseContainer run; the
\* SSH channel is closed once the handler has returned
HandlerReturns(s, code) ==
    hs' = [hs EXCEPT ![s].exits = IF code = 1 THEN Append(@, 1) ELSE @,
                     ![s].stream = IF @ = "open" THEN "closed" ELSE @,
                     ![s].releases = @ + 1,
                     ![s].closed = TRUE]

\* ExecInContainer fails: sess.Exit(1), return
SessExecFails(s) ==
    /\ ExecFails(s)
    /\ HandlerReturns(s, 1)

\* what the reader goroutine sends to outputErr: the error of its copy; a read
\* from a stream the handler has closed is an error
ReaderResult(err, streamState) ==
    IF err \/ streamState = "closed" THEN "err" ELSE "nil"

\* the reader goroutine ends because the guest's output ended (EOF: err FALSE)
\* or a read or write of the copy failed
ReaderEnds(s, err) ==
    /\ alive /\ hs[s].reader = "run"
    /\ hs' = [hs EXCEPT ![s].reader = ReaderResult(err, hs[s].stream)]
    /\ UNCHANGED <<procVars, regVars, shutdownClosed, reaper, shut, pc, user, cid,
                   acq, rtVars, now, cfgVars>>

\* the reader goroutine ends because its stream is gone: the handler closed it
\* or the container of the exec was removed
ReaderCut(s) ==
    /\ hs[s].stream = "closed" \/ ~RuntimeHas(cid[s])
    /\ ReaderEnds(s, FALSE)

\* the writer goroutine ends: the client's input ended (err FALSE) or a read or
\* write of the copy failed; the result of io.Copy is dropped; CloseWrite
WriterEnds(s, err) ==
    /\ alive /\ hs[s].writer = "run"
    /\ hs' = [hs EXCEPT ![s].writer = IF err THEN "err" ELSE "nil"]
    /\ UNCHANGED <<procVars, regVars, shutdownClosed, reaper, shut, pc, user, cid,
                   acq, rtVars, now, cfgVars>>

\* the writer goroutine ends because the SSH channel is closed
WriterCut(s) ==
    /\ hs[s].closed
    /\ WriterEnds(s, FALSE)

\* the resize goroutine ends: winCh is closed with the SSH channel
ResizeEnds(s) ==
    /\ alive /\ hs[s].resize = "run"
    /\ hs[s].closed
    /\ hs' = [hs EXCEPT ![s].resize = "end"]
    /\ UNCHANGED <<procVars, regVars, shutdownClosed, reaper, shut, pc, user, cid,
                   acq, rtVars, now, cfgVars>>

\* the client goes away while the handler waits: sess.Context() is cancelled
ClientCancels(s) ==
    /\ alive /\ pc[s] = "pump"
    /\ ~hs[s].ctxDone
    /\ hs' = [hs EXCEPT ![s].ctxDone = TRUE, ![s].closed = TRUE]
    /\ UNCHANGED <<procVars, regVars, shutdownClosed, reaper, shut, pc, user, cid,
                   acq, rtVars, now, cfgVars>>

\* case err := <-outputErr: sess.Exit(1) when err != nil
SelectOutputExitCode(result) == IF result = "err" THEN 1 ELSE 0

\* a handler that removes the user's container when its session ends
SessSelectOutputRemoves(s) ==
    LET u == user[s] IN
    /\ hs[s].reader \in {"nil", "err"}
    /\ alive /\ pc[s] = "pump" /\ lockW = None
    /\ containers' = IF Exists(u) THEN MapDelete(containers, u) ELSE containers
    /\ rt' = {c \in rt : c.id # cid[s]}
    /\ pc' = [pc EXCEPT ![s] = "done"]
    /\ HandlerReturns(s, SelectOutputExitCode(hs[s].reader))
    /\ UNCHANGED <<procVars, ucMutex, lockW, shutdownClosed, reaper, shut, user,
                   cid, acq, volumes, fs, started, rmCalls, now, cfgVars>>

\* select, case err := <-outputErr, and the return
SessSelectOutput(s) ==
    /\ hs[s].reader \in {"nil", "err"}
    /\ SessionEnds(s)
    /\ HandlerReturns(s, SelectOutputExitCode(hs[s].reader))

\* a return on cancellation that skips ReleaseContainer
SessSelectDoneNoRelease(s) ==
    /\ hs[s].ctxDone
    /\ alive /\ pc[s] = "pump"
    /\ pc' = [pc EXCEPT ![s] = "done"]
    /\ hs' = [hs EXCEPT ![s].stream = "closed", ![s].closed = TRUE]
    /\ UNCHANGED <<procVars, regVars, shutdownClosed, reaper, shut, user, cid, acq,
                   rtVars, now, cfgVars>>

\* select, case <-sess.Context().Done(), and the return
SessSelectDone(s) ==
    /\ hs[s].ctxDone
    /\ SessionEnds(s)
    /\ HandlerReturns(s, 0)

\* the sessions with every operation of handleSession, before the reaper's
\* ticker fires: no container is left from an earlier run
InitSession ==
    /\ Init
    /\ rt = {}
    /\ idleTimeout = 0
    /\ networks = MaxNetworks

NextSession ==
    \/ \E s \in Sessions, u \in Users : StartSession(s, u)
    \/ \E s \in Sessions : SessAcquire(s)
    \/ \E s \in Sessions, isPty \in BOOLEAN : SessExec(s, isPty)
    \/ \E s \in Sessions : SessExecFails(s)
    \/ \E s \in Sessions, err \in BOOLEAN : ReaderEnds(s, err)
    \/ \E s \in Sessions : ReaderCut(s)
    \/ \E s \in Sessions, err \in BOOLEAN : WriterEnds(s, err)
    \/ \E s \in Sessions : WriterCut(s)
    \/ \E s \in Sessions : ResizeEnds(s)
    \/ \E s \in Sessions : ClientCancels(s)
    \/ \E s \in Sessions : SessSelectOutput(s)
    \/ \E s \in Sessions : SessSelectDone(s)

SpecSession == InitSession /\ [][NextSession]_vars

\* the sessions while the daemon shuts down, by the signal handler of Run or
\* through Server.Shutdown: the guests keep running and the clients keep
\* their input open, so a pump ends only when its stream or channel is gone
NextSessionShutdown ==
    \/ \E s \in Sessions, u \in Users : StartSession(s, u)
    \/ \E s \in Sessions : SessAcquire(s)
    \/ \E s \in Sessions, isPty \in BOOLEAN : SessExec(s, isPty)
    \/ \E s \in Sessions : ReaderCut(s)
    \/ \E s \in Sessions : WriterCut(s)
    \/ \E s \in Sessions : ResizeEnds(s)
    \/ \E s \in Sessions : ClientCancels(s)
    \/ \E s \in Sessions : SessSelectOutput(s)
    \/ \E s \in Sessions : SessSelectDone(s)
    \/ \E kind \in {"signal", "api"} : ShutdownCall(kind)
    \/ \E ok \in BOOLEAN : CleanupList(ok)
    \/ \E u \in Users, crOk \in BOOLEAN, vrOk \in BOOLEAN : CleanupRemove(u, crOk, vrOk)
    \/ ShutdownReturn

\* the goroutines are scheduled and the runtime answers: GetOrCreateContainer
\* returns, a select with a ready case returns, a goroutine whose stream or
\* channel is gone ends, Shutdown runs to its end
FairSession ==
    /\ \A s \in Sessions :
          /\ WF_vars(SessAcquire(s))
          /\ WF_vars(SessSelectOutput(s) \/ SessSelectDone(s))
          /\ WF_vars(ReaderCut(s))
          /\ WF_vars(WriterCut(s))
          /\ WF_vars(ResizeEnds(s))
    /\ WF_vars(\E ok \in BOOLEAN : CleanupList(ok))
    /\ WF_vars(\E u \in Users, crOk \in BOOLEAN, vrOk \in BOOLEAN :
                  CleanupRemove(u, crOk, vrOk))
    /\ WF_vars(ShutdownReturn)

SpecSessionShutdown == InitSession /\ [][NextSessionShutdown]_vars /\ FairSession

\* ============================================================== claims
\* sessions whose GetOrCreateContainer returned a container id
Acquired(s) == pc[s] \in {"exec", "pump", "done"}
\* sessions whose ReleaseContainer has returned
Released(s) == pc[s] = "done"
AcquiredOf(u) == {s \in Sessions : user[s] = u /\ Acquired(s)}
ReleasedOf(u) == {s \in Sessions : user[s] = u /\ Released(s)}
\* sessions inside createContainer / ContainerStart
Creating(s) == pc[s] \in {"vfs", "create", "network", "start"}
\* no entry of u was removed since the first Acquire for u: every session that
\* acquired u got the id of the entry the registry holds now
NoRemoval(u) == \A s \in AcquiredOf(u) : cid[s] = containers[u].ID
ContainersOf(u) == {c \in rt : c.user = u}

\* C1: as long as no entry of the user was removed, the entry's active-stream
\* count is the number of completed successful Acquires minus the number of
\* completed Releases for that user.
C1_RefcountIntegrity ==
    \A u \in DOMAIN containers :
        NoRemoval(u) =>
            containers[u].ActiveStreams =
                Cardinality(AcquiredOf(u)) - Cardinality(ReleasedOf(u))

\* two Acquires and one Release have completed for one entry
C1_Witness ==
    \E u \in DOMAIN containers :
        /\ NoRemoval(u)
        /\ Cardinality(AcquiredOf(u)) = 2
        /\ Cardinality(ReleasedOf(u)) = 1
        /\ containers[u].ActiveStreams = 1

\* C2: the active-stream count of a registry entry is never negative.
C2_CountNeverNegative ==
    \A u \in DOMAIN containers : containers[u].ActiveStreams >= 0

\* the step in which cleanupIdleContainers has run removeContainer
ReaperRemoveStep == reaper.pc = "remove" /\ reaper'.pc = "scan"

\* C3: a step of the reaper that deletes an entry, removes a container or
\* removes a named volume does so for an entry whose count is 0.
C3_ReapOnlyWhenIdle ==
    [][ReaperRemoveStep =>
          \A u \in Users :
              (\/ (Exists(u) /\ u \notin DOMAIN containers')
               \/ ContainersOf(u) # {c \in rt' : c.user = u}
               \/ (u \in volumes /\ u \notin volumes'))
              => (Exists(u) /\ containers[u].ActiveStreams = 0)]_vars

\* the scan has visited an entry that is old enough but in use, and left it
C3_Witness ==
    /\ reaper.pc = "scan" /\ lockW = Reaper
    /\ \E u \in DOMAIN containers :
          /\ u \notin reaper.todo
          /\ containers[u].ActiveStreams > 0
          /\ now - containers[u].LastUsed > idleTimeout
          /\ RuntimeHas(containers[u].ID)

\* C4: when Shutdown has returned and the runtime refused none of its calls,
\* no container of the label-filtered list is left in the runtime.
C4_ShutdownCompleteness ==
    (shut.pc = "done" /\ ~shut.refused) =>
        \A c \in rt : c.id \notin shut.listed

\* C5: the runtime holds at most one container labelled with a user, and the
\* entry of a user refers to a container labelled with that user.
C5_SingleContainerPerUser ==
    /\ \A u \in Users : Cardinality(ContainersOf(u)) <= 1
    /\ \A u \in DOMAIN containers :
          /\ containers[u].User = u
          /\ \A c \in rt : c.id = containers[u].ID => c.user = u

\* a second creation for a user was attempted while a container of that user
\* was in the runtime, and was refused
C5_Witness ==
    /\ acq.result = "create"
    /\ pc[acq.sess] = "failed"
    /\ Cardinality(ContainersOf(user[acq.sess])) = 1

\* C6: the write lock serializes the creations, and when sessions waited in
\* Acquire for a user while the first caller created the container, and all of
\* them have acquired with nothing released, removed or failed since, one
\* container of the user exists, only the first caller created, every waiter
\* got the id of the first caller's entry, and the count is the number of
\* acquirers.
C6_ConcurrentFirstContact ==
    /\ \A s1, s2 \in Sessions : (Creating(s1) /\ Creating(s2)) => s1 = s2
    /\ \A u \in DOMAIN containers :
          (/\ acq.result = "ok" /\ acq.id = containers[u].ID
           /\ acq.waiters \subseteq AcquiredOf(u)
           /\ ReleasedOf(u) = {}
           /\ NoRemoval(u))
          => /\ containers[u].ActiveStreams = Cardinality(AcquiredOf(u))
             /\ Cardinality(AcquiredOf(u)) >= 1 + Cardinality(acq.waiters)
             /\ ContainersOf(u) = {[id |-> acq.id, user |-> u, started |-> TRUE]}
             /\ {s \in AcquiredOf(u) : cid[s] = s} = {acq.sess}
             /\ \A w \in acq.waiters : cid[w] = acq.id

\* a session waited while the first caller created; both have acquired
C6_Witness ==
    \E u \in DOMAIN containers :
        /\ acq.result = "ok" /\ acq.id = containers[u].ID
        /\ acq.waiters # {}
        /\ acq.waiters \subseteq AcquiredOf(u)
        /\ ReleasedOf(u) = {}
        /\ containers[u].ActiveStreams = 1 + Cardinality(acq.waiters)

\* the step in which GetOrCreateContainer returns an error to session s
AcquireFailsStep(s) == Creating(s) /\ pc'[s] = "failed"

\* C7: a step in which GetOrCreateContainer returns an error leaves the
\* registry as it was, and after every step each entry of the registry refers
\* to a container whose Start succeeded.
C7_NoZombieEntry ==
    [][/\ \A s \in Sessions : AcquireFailsStep(s) => containers' = containers
       /\ \A u \in DOMAIN containers' : containers'[u].ID \in started']_vars

\* a creation has failed at Start and the user has no entry
C7_Witness ==
    /\ acq.result = "start"
    /\ pc[acq.sess] = "failed"
    /\ ~Exists(user[acq.sess])

\* C8: when Start failed after Create succeeded, the created container is no
\* longer in the runtime once Acquire has returned the error.
C8_StartFailureRemovesContainer ==
    acq.result = "start" => ~RuntimeHas(acq.id)

\* C9: when attaching an additional network failed, the force-removal of the
\* created container was requested, and the container is gone unless the
\* runtime refused the removal; the error reached the caller, the container
\* was never started and no entry refers to it.
C9_NetworkFailureRollsBack ==
    acq.result = "network" =>
        /\ "remove" \in acq.calls
        /\ ~acq.rmRefused => ~RuntimeHas(acq.id)
        /\ pc[acq.sess] = "failed" /\ cid[acq.sess] = 0
        /\ "start" \notin acq.calls /\ acq.id \notin started
        /\ \A u \in DOMAIN containers : containers[u].ID # acq.id

\* a creation has failed at the network attach and its container is gone
C9_Witness ==
    /\ acq.result = "network"
    /\ acq.id # 0
    /\ ~RuntimeHas(acq.id)
    /\ pc[acq.sess] = "failed"

\* the step in which GetOrCreateContainer returns the id of an existing entry
ReuseStep(s) == pc[s] = "acquire" /\ pc'[s] = "exec"

\* C10: an Acquire that finds an entry adds exactly 1 to its count, stamps it
\* with the current time, returns the stored id, and makes no subvolume,
\* volume, Create or Start call: the runtime and the log of creation calls are
\* as before.
C10_ReuseIncrements ==
    [][\A s \in Sessions :
          ReuseStep(s) =>
              LET u == user[s] IN
              /\ Exists(u) /\ u \in DOMAIN containers'
              /\ containers'[u].ActiveStreams = containers[u].ActiveStreams + 1
              /\ containers'[u].LastUsed = now
              /\ containers'[u].ID = containers[u].ID
              /\ cid'[s] = containers[u].ID
              /\ \A v \in DOMAIN containers \ {u} : containers'[v] = containers[v]
              /\ UNCHANGED <<rt, volumes, fs, started, acq>>]_vars

\* a session has reused an entry another session created and has released
C10_Witness ==
    \E s \in Sessions :
        /\ pc[s] = "exec" /\ cid[s] # s
        /\ Exists(user[s]) /\ containers[user[s]].ID = cid[s]
        /\ containers[user[s]].ActiveStreams = 1
        /\ pc[cid[s]] = "done"

\* the step in which the deferred ReleaseContainer of session s has run
ReleaseStep(s) == pc[s] \in {"exec", "pump"} /\ pc'[s] = "done"

\* C11: a Release deletes no registry entry and removes no container and no
\* named volume: the usernames of the registry, the ids the entries refer to,
\* the containers of the runtime, the named volumes and the subvolumes are the
\* same after the Release as before, also when the count reaches 0.
C11_ReleaseRemovesNothing ==
    [][\A s \in Sessions :
          ReleaseStep(s) =>
              /\ DOMAIN containers' = DOMAIN containers
              /\ \A u \in DOMAIN containers : containers'[u].ID = containers[u].ID
              /\ UNCHANGED <<rt, volumes, fs, started>>]_vars

\* a Release has brought the count of an entry to 0; the entry, its container
\* and its named volume are still there
C11_Witness ==
    \E s \in Sessions :
        /\ pc[s] = "done"
        /\ Exists(user[s])
        /\ containers[user[s]].ID = cid[s]
        /\ containers[user[s]].ActiveStreams = 0
        /\ RuntimeHas(cid[s])
        /\ user[s] \in volumes

\* the calls of a removeContainer that went through, and of one that the
\* runtime refused at ContainerRemove
RemovedCalls(vrOk) ==
    <<Call("ContainerRemove", TRUE), Call("VolumeRemove", vrOk), Call("delete", TRUE)>>
RefusedCalls == <<Call("ContainerRemove", FALSE)>>

\* the step in which the scan passes over the entry of u without removing it
ReaperSkipStep(u) ==
    /\ reaper.pc = "scan" /\ reaper'.pc = "scan"
    /\ u \in reaper.todo /\ reaper'.todo = reaper.todo \ {u}

\* the containers, the volume and the entry of every user but u are untouched
OthersUnchanged(u) ==
    /\ \A v \in DOMAIN containers \ {u} :
          v \in DOMAIN containers' /\ containers'[v] = containers[v]
    /\ {c \in rt' : c.user # u} = {c \in rt : c.user # u}
    /\ volumes' \ {u} = volumes \ {u}

\* C12: the reaper calls removeContainer only for an entry with count 0 and
\* an idle time above the timeout; unless the runtime refuses ContainerRemove
\* the calls are ContainerRemove, VolumeRemove, delete in that order, the
\* container and the entry are gone, and the named volume is gone unless the
\* runtime refused VolumeRemove; the entries of the other users, and an entry
\* the scan passes over, are unchanged.
C12_ReapScan ==
    [][/\ ReaperRemoveStep =>
            LET u == reaper.cur IN
            /\ Exists(u) => IdleCond(containers[u])
            /\ (Exists(u) /\ rmCalls' # RefusedCalls) =>
                  /\ \E vrOk \in BOOLEAN :
                        /\ rmCalls' = RemovedCalls(vrOk)
                        /\ vrOk => u \notin volumes'
                  /\ \A c \in rt' : c.id # containers[u].ID
                  /\ u \notin DOMAIN containers'
            /\ OthersUnchanged(u)
            /\ UNCHANGED <<fs, started>>
       /\ \A u \in Users :
            (ReaperSkipStep(u) /\ Exists(u)) =>
                /\ ~IdleCond(containers[u])
                /\ UNCHANGED <<containers, rt, volumes, fs, started>>]_vars

\* the reaper has removed an idle entry with its container and named volume
\* and has passed over an entry that did not meet the condition
C12_Witness ==
    /\ reaper.pc = "scan" /\ lockW = Reaper
    /\ rmCalls = RemovedCalls(TRUE)
    /\ ~Exists(reaper.cur) /\ ContainersOf(reaper.cur) = {}
    /\ reaper.cur \notin volumes
    /\ \E v \in DOMAIN containers : v \notin reaper.todo /\ RuntimeHas(containers[v].ID)

\* the step in which cleanupIdleContainers starts a scan
ReaperTickStep == reaper.pc = "wait" /\ reaper'.pc = "scan"

\* C13: when the runtime refuses ContainerRemove in a scan, the process goes
\* on, the entry, the runtime and the volumes stay as they were, the entry's
\* mutex is released and the scan goes on with the remaining entries; every
\* tick scans all entries of the registry to the end, and an entry whose
\* removal was refused before is passed over only when it no longer meets the
\* idle condition, so the removal is tried again.
C13_ReapFailureSwallowed ==
    [][/\ (ReaperRemoveStep /\ Exists(reaper.cur) /\ rmCalls' = RefusedCalls) =>
            /\ alive' /\ ~panicked'
            /\ UNCHANGED <<containers, rt, volumes, fs, lockW>>
            /\ ucMutex'[reaper.cur] = None
            /\ reaper'.pc = "scan"
            /\ reaper'.todo = reaper.todo \ {reaper.cur}
       /\ ReaperTickStep => reaper'.todo = DOMAIN containers'
       /\ \A u \in Users :
            (/\ ReaperSkipStep(u) /\ Exists(u)
             /\ containers[u].ID \in reaper.refused)
            => ~IdleCond(containers[u])
       /\ (reaper.pc = "scan" /\ reaper'.pc = "wait") =>
            reaper.todo \cap DOMAIN containers = {}]_vars

\* the removal of an entry was refused in an earlier scan and is attempted
\* again in this one
C13_Witness ==
    /\ reaper.pc = "remove" /\ lockW = Reaper
    /\ Exists(reaper.cur)
    /\ containers[reaper.cur].ID \in reaper.refused

\* C14: with an idle timeout of 0 a tick scans every entry, the scan passes
\* over no entry whose count is 0, and the removal of such an entry deletes it
\* unless the runtime refuses ContainerRemove.
C14_ZeroTimeoutReap ==
    [][idleTimeout = 0 =>
          /\ ReaperTickStep => reaper'.todo = DOMAIN containers'
          /\ \A u \in Users :
                (ReaperSkipStep(u) /\ Exists(u)) => containers[u].ActiveStreams # 0
          /\ (ReaperRemoveStep /\ Exists(reaper.cur)) =>
                \/ rmCalls' = RefusedCalls
                \/ reaper.cur \notin DOMAIN containers']_vars

\* with timeout 0 the entry a Release left with count 0 was removed by the
\* first tick
C14_Witness ==
    /\ idleTimeout = 0 /\ now = 1
    /\ reaper.pc = "scan"
    /\ rmCalls = RemovedCalls(TRUE)
    /\ ~Exists(reaper.cur)
    /\ \E s \in Sessions : pc[s] = "done" /\ user[s] = reaper.cur /\ ~RuntimeHas(cid[s])

\* the step in which CreateVFSMount runs for session s
VFSStep(s) == pc[s] = "vfs" /\ pc'[s] # "vfs"

\* C19: no step deletes an existing user subvolume, and a CreateVFSMount for
\* a user whose subvolume exists does not run btrfs subvolume create.
C19_SubvolumePersists ==
    [][/\ \A u \in Users : fs[u] = "subvol" => fs'[u] = "subvol"
       /\ \A s \in Sessions :
            (VFSStep(s) /\ fs[user[s]] = "subvol") =>
                acq'.calls \cap {"subvolcreate", "subvolcreate refused"} = {}]_vars

\* a second container was created for a user after the first one was removed,
\* and the subvolume the first creation made is there
C19_Witness ==
    \E s \in Sessions :
        /\ pc[s] = "done" /\ cid[s] = s /\ ~RuntimeHas(s)
        /\ acq.result = "ok" /\ acq.sess # s /\ user[acq.sess] = user[s]
        /\ "subvolcreate" \notin acq.calls
        /\ RuntimeHas(acq.id)
        /\ fs[user[s]] = "subvol"

AcquireOkStep(s) == pc[s] \in {"acquire", "start"} /\ pc'[s] = "exec"
\* the step in which handleSession of session s returns
ReturnStep(s) == pc[s] \notin {"done", "failed"} /\ pc'[s] \in {"done", "failed"}
\* the count of the entry of u, 0 when there is none
CountOf(m, u) == IF u \in DOMAIN m THEN m[u].ActiveStreams ELSE 0

\* C15: the Acquire of a handler adds 1 to the count of the user's entry
\* before the exec stream is opened; the exec is opened only by a handler that
\* has acquired and not returned; a handler that returned after a successful
\* Acquire has called ReleaseContainer once, by a step that took 1 off the
\* count of the user's entry if there is one; a handler that has not returned
\* or whose Acquire failed has not called it.
C15_ReleaseExactlyOnce ==
    [][\A s \in Sessions :
          /\ AcquireOkStep(s) =>
                /\ CountOf(containers', user[s]) = CountOf(containers, user[s]) + 1
                /\ hs[s].stream = "none" /\ hs'[s].stream = "none"
          /\ (hs[s].stream = "none" /\ hs'[s].stream = "open") => pc[s] = "exec"
          /\ hs[s].releases = (IF pc[s] = "done" THEN 1 ELSE 0)
          /\ hs'[s].releases = (IF pc'[s] = "done" THEN 1 ELSE 0)
          /\ (ReturnStep(s) /\ pc'[s] = "done") =>
                CountOf(containers', user[s]) =
                    (IF Exists(user[s]) THEN CountOf(containers, user[s]) - 1 ELSE 0)
          /\ hs'[s].releases >= hs[s].releases]_vars

\* one handler has returned after a pump error and one after cancellation,
\* each with one Release, and the count is back at 0
C15_Witness ==
    \E s1, s2 \in Sessions :
        /\ pc[s1] = "done" /\ hs[s1].reader = "err" /\ ~hs[s1].ctxDone
        /\ hs[s1].releases = 1
        /\ pc[s2] = "done" /\ hs[s2].ctxDone /\ hs[s2].reader = "run"
        /\ hs[s2].releases = 1
        /\ user[s1] = user[s2]
        /\ CountOf(containers, user[s1]) = 0

\* a step of handleSession of session s after its Acquire, or of its goroutines
HandlerStep(s) ==
    /\ pc[s] \in {"exec", "pump", "done"}
    /\ pc'[s] # pc[s] \/ hs'[s] # hs[s]

\* C16: no step of a session handler after its Acquire, and no step of its
\* pumps, removes a container, a named volume, a subvolume or a registry
\* entry; with the reaper and Shutdown not acting, the container and the entry
\* a handler acquired are there, started, when it has returned, whatever way
\* it ended.
C16_BrokerNeverRemoves ==
    [][\A s \in Sessions :
          /\ HandlerStep(s) =>
                /\ UNCHANGED <<rt, volumes, fs, started>>
                /\ DOMAIN containers' = DOMAIN containers
                /\ \A u \in DOMAIN containers : containers'[u].ID = containers[u].ID
          /\ pc'[s] = "done" =>
                /\ user[s] \in DOMAIN containers'
                /\ containers'[user[s]].ID = cid'[s]
                /\ \E c \in rt' : c.id = cid'[s] /\ c.started]_vars

\* a session ended by a pump error; its container serves another session
C16_Witness ==
    \E s1, s2 \in Sessions :
        /\ pc[s1] = "done" /\ hs[s1].reader = "err" /\ hs[s1].exits = <<1>>
        /\ pc[s2] = "pump" /\ cid[s2] = cid[s1] /\ hs[s2].stream = "open"
        /\ CountOf(containers, user[s1]) = 1
        /\ RuntimeHas(cid[s1])

\* the exit status the SSH channel of session s gets: the code of the first
\* sess.Exit of the handler, 0 when the handler returned without calling it
ExitStatus(s) == IF hs[s].exits # <<>> THEN hs[s].exits[1] ELSE 0

\* C17: a handler that returns with the client still connected has reported 1
\* when its Acquire or its Exec failed or when its reader or its writer
\* goroutine had failed, and 0 otherwise.
C17_ExitCode ==
    [][\A s \in Sessions :
          (ReturnStep(s) /\ ~hs[s].ctxDone) =>
              ExitStatus(s)' =
                  (IF \/ pc'[s] = "failed"
                      \/ pc[s] = "exec"
                      \/ hs[s].reader = "err"
                      \/ hs[s].writer = "err"
                   THEN 1 ELSE 0)]_vars

\* session s has ended: the handler has returned, the exec stream is closed
\* and none of its goroutines runs
Ended(s) ==
    /\ pc[s] = "done" /\ hs[s].stream = "closed"
    /\ hs[s].reader # "run" /\ hs[s].writer # "run" /\ hs[s].resize # "run"

\* an event the handler of session s is to wait for has happened
FirstEvent(s) ==
    \/ hs[s].reader \in {"nil", "err"}
    \/ hs[s].ctxDone
    \/ shutdownClosed

\* C18: when the reader goroutine has completed, the session is cancelled or
\* the daemon is shutting down while a handler waits in its select, the handler
\* eventually returns with the exec stream closed and its reader, writer and
\* resize goroutines ended (or the process has exited).
C18_HandlerEndsOnFirstEvent ==
    \A s \in Sessions :
        (pc[s] = "pump" /\ FirstEvent(s)) ~> (~alive \/ Ended(s))

\* --------------------------------------- CreateVFSMount on every kind of path
PathKinds == {"absent", "subvol", "dir"}

\* the daemon starts with /mnt/vfs/<user> absent, a subvolume or a plain
\* directory for each user; no container and no named volume is left
InitVFS ==
    /\ alive = TRUE
    /\ panicked = FALSE
    /\ containers = [x \in {} |-> 0]
    /\ ucMutex = [u \in Users |-> None]
    /\ lockW = None
    /\ shutdownClosed = FALSE
    /\ reaper = [pc |-> "wait", todo |-> {}, cur |-> "alice", refused |-> {}]
    /\ shut = [pc |-> "idle", kind |-> "signal", todo |-> {}, listed |-> {},
               refused |-> FALSE]
    /\ pc = [s \in Sessions |-> "init"]
    /\ user = [s \in Sessions |-> "alice"]
    /\ cid = [s \in Sessions |-> 0]
    /\ acq = [sess |-> 0, id |-> 0, result |-> "none", calls |-> {},
              rmRefused |-> FALSE, waiters |-> {}]
    /\ rt = {}
    /\ volumes = {}
    /\ fs \in [Users -> PathKinds]
    /\ started = {}
    /\ now = 0
    /\ idleTimeout = 0
    /\ networks = 1
    /\ rmCalls = <<>>
    /\ hs = [s \in Sessions |->
               [isPty |-> FALSE, exits |-> <<>>, releases |-> 0, stream |-> "none",
                reader |-> "none", writer |-> "none", resize |-> "none",
                ctxDone |-> FALSE, closed |-> FALSE]]
    /\ auth = [attempts |-> 0, requests |-> 0, sess |-> 0, resp |-> NoResponse,
               result |-> FALSE]
    /\ size = [in |-> DefaultSize, out |-> NotParsed]
    /\ lk = [readers |-> {}, pending |-> None]
    /\ io = [s \in Sessions |-> NoBytes]
    /\ env = NoEnv
    /\ win = [s \in Sessions |-> NoResize]

SpecVFS == InitVFS /\ [][NextSession]_vars

C22_QuotaOnEveryAcquire ==
    [][\A s \in Sessions :
          AcquireOkStep(s) =>
              /\ acq'.sess = s
              /\ "qgroup" \in acq'.calls
              /\ acq'.result = "ok"]_vars

\* ------------------------------- the SSH front: authenticateUser and Run
\* http.StatusOK
StatusOK == 200

\* what http.PostForm returns: an error, or a response with a status code
StatusCodes == {200, 201, 401, 500}
Responses == {[err |-> TRUE, status |-> 0]}
             \cup {[err |-> FALSE, status |-> c] : c \in StatusCodes}

\* an authenticateUser that answers from an earlier success of the same user
\* without a request
authenticateUserCached(s, u, resp) ==
    LET hit == auth.result /\ user[auth.sess] = u
        success == hit \/ (~resp.err /\ resp.status = StatusOK) IN
    /\ alive /\ pc[s] = "connect"
    /\ s = 1 => u = "alice"
    /\ auth.attempts < MaxAttempts
    /\ auth' = [attempts |-> auth.attempts + 1,
                requests |-> IF hit THEN auth.requests ELSE auth.requests + 1,
                sess |-> s,
                resp |-> IF hit THEN NoResponse ELSE resp,
                result |-> success]
    /\ pc' = [pc EXCEPT ![s] = IF success THEN "init" ELSE "connect"]
    /\ user' = [user EXCEPT ![s] = u]
    /\ UNCHANGED <<procVars, regVars, shutdownClosed, reaper, shut, cid, acq, hs,
                   rtVars, now, idleTimeout, networks, size, lk, io, env, win>>

\* an authenticateUser whose result the server does not look at
authenticateUserAdmitsAll(s, u, resp) ==
    LET success == ~resp.err /\ resp.status = StatusOK IN
    /\ alive /\ pc[s] = "connect"
    /\ s = 1 => u = "alice"
    /\ auth.attempts < MaxAttempts
    /\ auth' = [attempts |-> auth.attempts + 1, requests |-> auth.requests + 1,
                sess |-> s, resp |-> resp, result |-> success]
    /\ pc' = [pc EXCEPT ![s] = "init"]
    /\ user' = [user EXCEPT ![s] = u]
    /\ UNCHANGED <<procVars, regVars, shutdownClosed, reaper, shut, cid, acq, hs,
                   rtVars, now, idleTimeout, networks, size, lk, io, env, win>>

\* the PasswordHandler of a connection s for the user name u: http.PostForm to
\* the OAuth2 endpoint, which answers resp; an error is a denial, else the
\* result is resp.StatusCode == http.StatusOK.  A connection whose password was
\* accepted may open its session; after a denial the client may try again.
\* (the users are interchangeable: the first connection is alice's)
authenticateUser(s, u, resp) ==
    LET success == ~resp.err /\ resp.status = StatusOK IN
    /\ alive /\ pc[s] = "connect"
    /\ s = 1 => u = "alice"
    /\ auth.attempts < MaxAttempts
    /\ auth' = [attempts |-> auth.attempts + 1, requests |-> auth.requests + 1,
                sess |-> s, resp |-> resp, result |-> success]
    /\ pc' = [pc EXCEPT ![s] = IF success THEN "init" ELSE "connect"]
    /\ user' = [user EXCEPT ![s] = u]
    /\ UNCHANGED <<procVars, regVars, shutdownClosed, reaper, shut, cid, acq, hs,
                   rtVars, now, idleTimeout, networks, size, lk, io, env, win>>

\* a subsystem handler that takes a reference on the user's container
SftpSubsystemCounts(s) ==
    LET u == user[s] IN
    /\ alive /\ pc[s] = "init"
    /\ pc' = [pc EXCEPT ![s] = "sftp"]
    /\ hs' = [hs EXCEPT ![s].exits = Append(@, 0), ![s].closed = TRUE]
    /\ containers' = IF Exists(u)
                     THEN [containers EXCEPT ![u].ActiveStreams = @ + 1]
                     ELSE containers
    /\ UNCHANGED <<procVars, ucMutex, lockW, shutdownClosed, reaper, shut, user,
                   cid, acq, rtVars, now, cfgVars>>

\* SubsystemHandlers["sftp"]: the warning is logged, sess.Exit(0), and the
\* deferred sess.Close()
SftpSubsystem(s) ==
    /\ alive /\ pc[s] = "init"
    /\ pc' = [pc EXCEPT ![s] = "sftp"]
    /\ hs' = [hs EXCEPT ![s].exits = Append(@, 0), ![s].closed = TRUE]
    /\ UNCHANGED <<procVars, regVars, shutdownClosed, reaper, shut, user, cid, acq,
                   rtVars, now, cfgVars>>

\* the daemon listens: no connection is authenticated, nothing is left from an
\* earlier run
InitFront ==
    /\ alive = TRUE
    /\ panicked = FALSE
    /\ containers = [x \in {} |-> 0]
    /\ ucMutex = [u \in Users |-> None]
    /\ lockW = None
    /\ shutdownClosed = FALSE
    /\ reaper = [pc |-> "wait", todo |-> {}, cur |-> "alice", refused |-> {}]
    /\ shut = [pc |-> "idle", kind |-> "signal", todo |-> {}, listed |-> {},
               refused |-> FALSE]
    /\ pc = [s \in Sessions |-> "connect"]
    /\ user = [s \in Sessions |-> "alice"]
    /\ cid = [s \in Sessions |-> 0]
    /\ acq = [sess |-> 0, id |-> 0, result |-> "none", calls |-> {},
              rmRefused |-> FALSE, waiters |-> {}]
    /\ rt = {}
    /\ volumes = {}
    /\ fs = [u \in Users |-> "absent"]
    /\ started = {}
    /\ now = 0
    /\ idleTimeout = 0
    /\ networks = 1
    /\ rmCalls = <<>>
    /\ hs = [s \in Sessions |->
               [isPty |-> FALSE, exits |-> <<>>, releases |-> 0, stream |-> "none",
                reader |-> "none", writer |-> "none", resize |-> "none",
                ctxDone |-> FALSE, closed |-> FALSE]]
    /\ auth = [attempts |-> 0, requests |-> 0, sess |-> 0, resp |-> NoResponse,
               result |-> FALSE]
    /\ size = [in |-> DefaultSize, out |-> NotParsed]
    /\ lk = [readers |-> {}, pending |-> None]
    /\ io = [s \in Sessions |-> NoBytes]
    /\ env = NoEnv
    /\ win = [s \in Sessions |-> NoResize]

\* the connections from the password to the end of the session: the session
\* channel of an authenticated connection asks for a shell or a command
\* (handleSession) or for the sftp subsystem
NextFront ==
    \/ \E s \in Sessions, u \in Users, resp \in Responses : authenticateUser(s, u, resp)
    \/ \E s \in Sessions : StartSession(s, user[s])
    \/ \E s \in Sessions : SftpSubsystem(s)
    \/ \E s \in Sessions : SessAcquire(s)
    \/ \E s \in Sessions, isPty \in BOOLEAN : SessExec(s, isPty)
    \/ \E s \in Sessions : SessExecFails(s)
    \/ \E s \in Sessions : ClientCancels(s)
    \/ \E s \in Sessions : SessSelectDone(s)

SpecFront == InitFront /\ [][NextFront]_vars

\* the step in which authenticateUser runs
AuthStep == auth'.attempts # auth.attempts

\* C23: every call of authenticateUser issues one POST to the endpoint and
\* returns true exactly when that POST got a response with status 200: an
\* error of the transport and every other status give false; only a
\* connection whose latest call returned true goes on to its session.
C23_AuthIffStatusOK ==
    [][AuthStep =>
          /\ auth'.attempts = auth.attempts + 1
          /\ auth'.requests = auth.requests + 1
          /\ auth'.resp \in Responses
          /\ auth'.result = (~auth'.resp.err /\ auth'.resp.status = 200)
          /\ pc[auth'.sess] = "connect"
          /\ pc'[auth'.sess] = (IF auth'.result THEN "init" ELSE "connect")]_vars

\* a user whose password had been accepted on one connection is denied on
\* another, by the endpoint's second answer
C23_Witness ==
    /\ auth.attempts = 2 /\ auth.requests = 2
    /\ ~auth.result /\ ~auth.resp.err /\ auth.resp.status = 401
    /\ \E s \in Sessions :
          s # auth.sess /\ pc[s] = "pump" /\ user[s] = user[auth.sess]

\* C24: a call of authenticateUser that returns false changes nothing in the
\* registry, the locks, the runtime, the named volumes or the subvolumes and
\* lets no handler run: the connection stays unauthenticated, and a connection
\* that is not authenticated has acquired and released nothing.
C24_DeniedAuthTouchesNothing ==
    [][/\ (AuthStep /\ ~auth'.result) =>
             /\ UNCHANGED <<containers, ucMutex, lockW, rt, volumes, fs, started,
                            rmCalls, acq, cid, hs>>
             /\ pc' = pc
       /\ \A s \in Sessions :
             pc'[s] = "connect" =>
                 /\ cid'[s] = 0 /\ acq'.sess # s
                 /\ hs'[s].releases = 0 /\ hs'[s].stream = "none"
      ]_vars

\* a password for a user was denied while the user's container serves a
\* session: the entry is there with its count of 1
C24_Witness ==
    /\ auth.attempts >= 1 /\ ~auth.result
    /\ pc[auth.sess] = "connect"
    /\ Exists(user[auth.sess])
    /\ containers[user[auth.sess]].ActiveStreams = 1
    /\ RuntimeHas(containers[user[auth.sess]].ID)
    /\ \E s \in Sessions : pc[s] = "pump" /\ user[s] = user[auth.sess]

\* the step in which the sftp subsystem handler runs for session s
SftpStep(s) == pc[s] = "init" /\ pc'[s] = "sftp"

\* C25: the sftp subsystem handler exits the session with code 0 and closes
\* it, in a step that changes nothing in the registry, the locks, the runtime,
\* the volumes or the subvolumes; afterwards the session takes no further
\* step: it never calls GetOrCreateContainer, ExecInContainer or
\* ReleaseContainer.
C25_SftpClosedWithZero ==
    [][\A s \in Sessions :
          /\ SftpStep(s) =>
                /\ hs'[s].exits = <<0>> /\ hs'[s].closed
                /\ UNCHANGED <<containers, ucMutex, lockW, rt, volumes, fs,
                               started, rmCalls, acq, cid>>
          /\ pc[s] = "sftp" => (pc'[s] = "sftp" /\ hs'[s] = hs[s])
          /\ pc'[s] = "sftp" =>
                /\ ExitStatus(s)' = 0
                /\ cid'[s] = 0 /\ acq'.sess # s
                /\ hs'[s].stream = "none" /\ hs'[s].releases = 0]_vars

\* a session that asked for sftp was closed with 0 while the user's container
\* serves a shell session: the count is that of the shell session alone
C25_Witness ==
    \E s1, s2 \in Sessions :
        /\ pc[s1] = "sftp" /\ hs[s1].exits = <<0>> /\ hs[s1].closed
        /\ pc[s2] = "pump" /\ user[s2] = user[s1]
        /\ containers[user[s1]].ActiveStreams = 1

\* ------------------------------------------------------------ ParseSize
\* a string is the sequence of its characters
DigitChars == <<"0", "1", "2", "3", "4", "5", "6", "7", "8", "9">>
Digits == {DigitChars[i] : i \in 1..Len(DigitChars)}
DigitValue(c) == (CHOOSE i \in 1..Len(DigitChars) : DigitChars[i] = c) - 1

LowerChars == <<"b", "e", "g", "i", "k", "m", "s", "t", "x", "y">>
UpperChars == <<"B", "E", "G", "I", "K", "M", "S", "T", "X", "Y">>

\* strings.ToUpper
ToUpper(str) ==
    [i \in 1..Len(str) |->
        IF \E k \in 1..Len(LowerChars) : LowerChars[k] = str[i]
        THEN UpperChars[CHOOSE k \in 1..Len(LowerChars) : LowerChars[k] = str[i]]
        ELSE str[i]]

\* the units the regular expression admits: [KMGT]B?|B?
RegexUnits ==
    {<<>>, <<"B">>} \cup {<<c>> : c \in {"K", "M", "G", "T"}}
                    \cup {<<c, "B">> : c \in {"K", "M", "G", "T"}}

\* the length of the longest prefix of str made of digits and dots
NumberLen(str) ==
    CHOOSE n \in 0..Len(str) :
        /\ \A i \in 1..n : str[i] \in Digits \cup {"."}
        /\ n < Len(str) => str[n + 1] \notin Digits \cup {"."}

\* \d+\.?\d*
IsNumber(num) ==
    /\ Len(num) >= 1 /\ num[1] \in Digits
    /\ Cardinality({i \in 1..Len(num) : num[i] = "."}) <= 1

\* the number of characters of \s* after the first n characters
SpaceLen(str, n) ==
    CHOOSE k \in 0..(Len(str) - n) :
        /\ \A i \in (n + 1)..(n + k) : str[i] = " "
        /\ n + k < Len(str) => str[n + k + 1] # " "

\* re.FindStringSubmatch: the number and the unit, or no match
FindStringSubmatch(str) ==
    LET n == NumberLen(str)
        k == SpaceLen(str, n)
        num == SubSeq(str, 1, n)
        unit == SubSeq(str, n + k + 1, Len(str)) IN
    IF IsNumber(num) /\ unit \in RegexUnits
    THEN [ok |-> TRUE, num |-> num, unit |-> unit]
    ELSE [ok |-> FALSE, num |-> <<>>, unit |-> <<>>]

RECURSIVE DigitsValue(_)
DigitsValue(ds) ==
    IF ds = <<>> THEN 0
    ELSE 10 * DigitsValue(SubSeq(ds, 1, Len(ds) - 1)) + DigitValue(ds[Len(ds)])

RECURSIVE Pow(_, _)
Pow(b, e) == IF e = 0 THEN 1 ELSE b * Pow(b, e - 1)

\* strconv.ParseFloat of a string matching \d+\.?\d*: the value is num / den
ParseFloat(num) ==
    LET dots == {i \in 1..Len(num) : num[i] = "."}
        p == IF dots = {} THEN Len(num) + 1 ELSE CHOOSE i \in dots : TRUE
        whole == SubSeq(num, 1, p - 1)
        frac == SubSeq(num, p + 1, Len(num)) IN
    [num |-> DigitsValue(whole \o frac), den |-> Pow(10, Len(frac))]

\* the switch on the unit: the exponent e of the multiplier math.Pow(1024, e)
UnitExp(unit) ==
    CASE unit \in {<<>>, <<"B">>} -> 0
      [] unit \in {<<"K">>, <<"K", "B">>} -> 1
      [] unit \in {<<"M">>, <<"M", "B">>} -> 2
      [] unit \in {<<"G">>, <<"G", "B">>} -> 3
      [] unit \in {<<"T">>, <<"T", "B">>} -> 4
      [] OTHER -> 0 - 1

RECURSIVE Normal(_)
Normal(b) ==
    IF b.coef = 0 THEN Bytes(0, 0)
    ELSE IF b.coef % 1024 = 0 THEN Normal(Bytes(b.coef \div 1024, b.exp + 1))
    ELSE b

\* uint64(value * multiplier) for a value num/den whose product with 1024 is
\* whole: the truncated product, as coef * 1024^exp with coef no multiple of 1024
Product(v, e) ==
    IF e = 0 THEN Normal(Bytes(v.num \div v.den, 0))
    ELSE Normal(Bytes((v.num * 1024) \div v.den, e - 1))

\* bytes > math.MaxUint64, for a byte count in normal form
ExceedsUint64(b) ==
    \/ b.exp >= 7
    \/ b.exp = 6 /\ b.coef >= 16

\* ParseSize: the empty string, the match of the upper-cased string, the value
\* (strconv.ParseFloat accepts every string the expression matched), the
\* multiplier of the unit, the product and its conversion to uint64
ParseSize(str) ==
    IF str = <<>> THEN [err |-> "empty size string", bytes |-> Bytes(0, 0)]
    ELSE LET matches == FindStringSubmatch(ToUpper(str)) IN
         IF ~matches.ok THEN [err |-> "invalid size format", bytes |-> Bytes(0, 0)]
         ELSE IF UnitExp(matches.unit) < 0
              THEN [err |-> "unsupported unit", bytes |-> Bytes(0, 0)]
              ELSE LET b == Product(ParseFloat(matches.num), UnitExp(matches.unit)) IN
                   IF ExceedsUint64(b)
                   THEN [err |-> "size exceeds maximum uint64 value",
                         bytes |-> Bytes(0, 0)]
                   ELSE [err |-> "none", bytes |-> b]


\* the size strings tried: a number, an optional space, a unit
SizeNumbers ==
    {<<"0">>, <<"1">>, <<"2">>, <<"1", "0">>, <<"5", "1", "2">>, <<"1", ".">>,
     <<"1", ".", "5">>, <<"2", ".", "0">>, <<".", "5">>, <<"1", ".", "5", ".", "0">>,
     <<>>}
SizeSpaces == {<<>>, <<" ">>}
SizeUnits ==
    {<<>>, <<"B">>, <<"b">>, <<"K">>, <<"k">>, <<"K", "B">>, <<"k", "b">>,
     <<"K", "i", "B">>, <<"K", "I", "B">>, <<"M">>, <<"m">>, <<"M", "B">>,
     <<"M", "i", "B">>, <<"G">>, <<"g">>, <<"G", "B">>, <<"g", "b">>,
     <<"G", "i", "B">>, <<"g", "i", "b">>, <<"T">>, <<"T", "B">>, <<"T", "i", "B">>,
     <<"B", "Y", "T", "E", "S">>, <<"X">>, <<"G", "B", "B">>, <<"G", "i">>}
SizeInputs == {n \o sp \o u : n \in SizeNumbers, sp \in SizeSpaces, u \in SizeUnits}

\* ParseSize is called on the size string
ParseSizeCall ==
    /\ alive /\ size.out = NotParsed
    /\ size' = [size EXCEPT !.out = ParseSize(size.in)]
    /\ UNCHANGED <<procVars, regVars, shutdownClosed, reaper, shut, sessVars,
                   rtVars, now, idleTimeout, networks, auth, lk, io, env, win>>

\* the configuration is read: the size string is any of the strings tried
InitSize ==
    /\ alive = TRUE
    /\ panicked = FALSE
    /\ containers = [x \in {} |-> 0]
    /\ ucMutex = [u \in Users |-> None]
    /\ lockW = None
    /\ shutdownClosed = FALSE
    /\ reaper = [pc |-> "wait", todo |-> {}, cur |-> "alice", refused |-> {}]
    /\ shut = [pc |-> "idle", kind |-> "signal", todo |-> {}, listed |-> {},
               refused |-> FALSE]
    /\ pc = [s \in Sessions |-> "init"]
    /\ user = [s \in Sessions |-> "alice"]
    /\ cid = [s \in Sessions |-> 0]
    /\ acq = [sess |-> 0, id |-> 0, result |-> "none", calls |-> {},
              rmRefused |-> FALSE, waiters |-> {}]
    /\ rt = {}
    /\ volumes = {}
    /\ fs = [u \in Users |-> "absent"]
    /\ started = {}
    /\ now = 0
    /\ idleTimeout = 0
    /\ networks = 1
    /\ rmCalls = <<>>
    /\ hs = [s \in Sessions |->
               [isPty |-> FALSE, exits |-> <<>>, releases |-> 0, stream |-> "none",
                reader |-> "none", writer |-> "none", resize |-> "none",
                ctxDone |-> FALSE, closed |-> FALSE]]
    /\ auth = [attempts |-> 0, requests |-> 0, sess |-> 0, resp |-> NoResponse,
               result |-> FALSE]
    /\ size \in [in : SizeInputs, out : {NotParsed}]
    /\ lk = [readers |-> {}, pending |-> None]
    /\ io = [s \in Sessions |-> NoBytes]
    /\ env = NoEnv
    /\ win = [s \in Sessions |-> NoResize]

NextSize == ParseSizeCall

SpecSize == InitSize /\ [][NextSize]_vars

\* the value of a byte count
AsInteger(b) == b.coef * Pow(1024, b.exp)

\* C26: ParseSize returns 1073741824 for 1G, 1GB and 1GiB in any case of the
\* letters, and for every number it accepts it returns the same byte count,
\* without an error, for the spellings K/KB/KIB, M/MB/MIB, G/GB/GIB and
\* T/TB/TIB of a unit.
C26_UnitSpellings ==
    size.out # NotParsed =>
        LET up == ToUpper(size.in) IN
        /\ up \in {<<"1", "G">>, <<"1", "G", "B">>, <<"1", "G", "I", "B">>} =>
              /\ size.out.err = "none"
              /\ AsInteger(size.out.bytes) = 1073741824
        /\ \A n \in SizeNumbers, sp \in SizeSpaces, c \in {"K", "M", "G", "T"} :
              (IsNumber(n) /\ up \in {n \o sp \o <<c>>, n \o sp \o <<c, "B">>,
                                      n \o sp \o <<c, "I", "B">>}) =>
                  /\ size.out.err = "none"
                  /\ size.out = ParseSize(n \o <<c>>)

\* a step that calls the runtime or btrfs: a container, a named volume or a
\* subvolume is made or removed, a container is started, or a call is refused
RuntimeIOStep ==
    \/ rt' # rt \/ volumes' # volumes \/ fs' # fs \/ started' # started
    \/ acq'.calls # acq.calls
    \/ rmCalls' # rmCalls /\ rmCalls' # <<>>

\* C27: every step that calls the runtime or btrfs is taken while nobody holds
\* cm.containersMutex and no UserContainer mutex is held.
C27_NoIOUnderLock ==
    [][RuntimeIOStep =>
          /\ lockW = None
          /\ \A u \in Users : ucMutex[u] = None]_vars

\* ------------------------------------------- the lock calls, one by one
\* cm.containersMutex is a sync.RWMutex: Lock() first announces the writer
\* (lk.pending), which keeps new readers out, and returns when the readers
\* have left (lockW); RLock() returns when no writer holds or is announced.
\* A session is at "acquire" before GetOrCreateContainer's Lock(), at
\* "lockwait" inside it, at "locked" holding it, at "ctlock" before
\* ct.mutex.Lock(), at "ctheld" holding it, at "creating" in createContainer;
\* at "release" before ReleaseContainer's RLock(), at "rlocked" holding it, at
\* "relct" before ct.mutex.Lock(), at "relheld" holding it.
confVars == <<idleTimeout, networks, auth, size, io, env, win>>

\* no writer holds cm.containersMutex or is announced
NoWriter == lockW = None /\ lk.pending = None

\* GetOrCreateContainer: cm.containersMutex.Lock() is called
GOCLock(s) ==
    /\ alive /\ pc[s] = "acquire"
    /\ NoWriter
    /\ lk' = [lk EXCEPT !.pending = s]
    /\ pc' = [pc EXCEPT ![s] = "lockwait"]
    /\ UNCHANGED <<procVars, regVars, shutdownClosed, reaper, shut, user, cid, acq,
                   hs, rtVars, now, confVars>>

\* Lock() returns: the readers have left
GOCLocked(s) ==
    /\ alive /\ pc[s] = "lockwait" /\ lk.pending = s
    /\ lk.readers = {}
    /\ lockW' = s
    /\ lk' = [lk EXCEPT !.pending = None]
    /\ pc' = [pc EXCEPT ![s] = "locked"]
    /\ UNCHANGED <<procVars, containers, ucMutex, shutdownClosed, reaper, shut,
                   user, cid, acq, hs, rtVars, now, confVars>>

\* ct, exists := cm.containers[username]
GOCLookup(s) ==
    /\ alive /\ pc[s] = "locked" /\ lockW = s
    /\ pc' = [pc EXCEPT ![s] = IF Exists(user[s]) THEN "ctlock" ELSE "creating"]
    /\ UNCHANGED <<procVars, regVars, shutdownClosed, reaper, shut, user, cid, acq,
                   hs, rtVars, now, cfgVars>>

\* ct.mutex.Lock()
GOCMutexLock(s) ==
    /\ alive /\ pc[s] = "ctlock"
    /\ ucMutex[user[s]] = None
    /\ ucMutex' = [ucMutex EXCEPT ![user[s]] = s]
    /\ cid' = [cid EXCEPT ![s] = IF Exists(user[s]) THEN containers[user[s]].ID ELSE 0]
    /\ pc' = [pc EXCEPT ![s] = "ctheld"]
    /\ UNCHANGED <<procVars, containers, lockW, shutdownClosed, reaper, shut, user,
                   acq, hs, rtVars, now, cfgVars>>

\* ct.ActiveStreams++, ct.LastUsed, ct.mutex.Unlock(), return, deferred Unlock()
\* (the entry may have been deleted by CleanUpContainers in between: the
\* update is then made to an object the map no longer holds)
GOCCount(s) ==
    LET u == user[s] IN
    /\ alive /\ pc[s] = "ctheld" /\ ucMutex[u] = s
    /\ containers' = IF Exists(u) /\ containers[u].ID = cid[s]
                     THEN [containers EXCEPT
                              ![u].ActiveStreams = containers[u].ActiveStreams + 1,
                              ![u].LastUsed = now]
                     ELSE containers
    /\ ucMutex' = [ucMutex EXCEPT ![u] = None]
    /\ lockW' = None
    /\ pc' = [pc EXCEPT ![s] = "exec"]
    /\ UNCHANGED <<procVars, shutdownClosed, reaper, shut, user, cid, acq, hs,
                   rtVars, now, cfgVars>>

\* createContainer and ContainerStart under the write lock, as one step: the
\* insert of the entry on success; return, deferred Unlock()
GOCCreate(s, ok) ==
    LET u == user[s] IN
    /\ alive /\ pc[s] = "creating" /\ lockW = s
    /\ IF ok /\ ~NameConflict(u)
       THEN /\ rt' = rt \cup {[id |-> s, user |-> u, started |-> TRUE]}
            /\ started' = started \cup {s}
            /\ volumes' = volumes \cup {u}
            /\ fs' = [fs EXCEPT ![u] = "subvol"]
            /\ containers' = MapInsert(containers, u, UserContainer(s, u, now))
            /\ cid' = [cid EXCEPT ![s] = s]
            /\ pc' = [pc EXCEPT ![s] = "exec"]
            /\ env' = [env EXCEPT !.cont[s] = CreateEnv(Environ(s))]
       ELSE /\ pc' = [pc EXCEPT ![s] = "failed"]
            /\ UNCHANGED <<rt, started, volumes, fs, containers, cid, env>>
    /\ lockW' = None
    /\ UNCHANGED <<procVars, ucMutex, shutdownClosed, reaper, shut, user, acq, hs,
                   rmCalls, now, idleTimeout, networks, auth, size, lk, io, win>>

\* handleSession returns after a successful Acquire: the deferred
\* ReleaseContainer is called
RelCall(s) ==
    /\ alive /\ pc[s] = "exec"
    /\ pc' = [pc EXCEPT ![s] = "release"]
    /\ UNCHANGED <<procVars, regVars, shutdownClosed, reaper, shut, user, cid, acq,
                   hs, rtVars, now, cfgVars>>

\* ReleaseContainer: cm.containersMutex.RLock() returns
RelRLock(s) ==
    /\ alive /\ pc[s] = "release"
    /\ NoWriter
    /\ lk' = [lk EXCEPT !.readers = @ \cup {s}]
    /\ pc' = [pc EXCEPT ![s] = "rlocked"]
    /\ UNCHANGED <<procVars, regVars, shutdownClosed, reaper, shut, user, cid, acq,
                   hs, rtVars, now, confVars>>

\* ct, exists := cm.containers[username]; without an entry, return and the
\* deferred RUnlock()
RelLookup(s) ==
    /\ alive /\ pc[s] = "rlocked"
    /\ IF Exists(user[s])
       THEN /\ pc' = [pc EXCEPT ![s] = "relct"]
            /\ UNCHANGED lk
       ELSE /\ pc' = [pc EXCEPT ![s] = "done"]
            /\ lk' = [lk EXCEPT !.readers = @ \ {s}]
    /\ UNCHANGED <<procVars, regVars, shutdownClosed, reaper, shut, user, cid, acq,
                   hs, rtVars, now, confVars>>

\* ct.mutex.Lock()
RelMutexLock(s) ==
    /\ alive /\ pc[s] = "relct"
    /\ ucMutex[user[s]] = None
    /\ ucMutex' = [ucMutex EXCEPT ![user[s]] = s]
    /\ pc' = [pc EXCEPT ![s] = "relheld"]
    /\ UNCHANGED <<procVars, containers, lockW, shutdownClosed, reaper, shut, user,
                   cid, acq, hs, rtVars, now, cfgVars>>

\* ct.ActiveStreams--, ct.LastUsed, ct.mutex.Unlock(), deferred RUnlock()
RelCount(s) ==
    LET u == user[s] IN
    /\ alive /\ pc[s] = "relheld" /\ ucMutex[u] = s
    /\ containers' = IF Exists(u)
                     THEN [containers EXCEPT
                              ![u].ActiveStreams = Decrement(containers[u].ActiveStreams),
                              ![u].LastUsed = now]
                     ELSE containers
    /\ ucMutex' = [ucMutex EXCEPT ![u] = None]
    /\ lk' = [lk EXCEPT !.readers = @ \ {s}]
    /\ pc' = [pc EXCEPT ![s] = "done"]
    /\ UNCHANGED <<procVars, lockW, shutdownClosed, reaper, shut, user, cid, acq, hs,
                   rtVars, now, confVars>>

\* case <-ticker.C: cleanupIdleContainers calls cm.containersMutex.Lock()
ReapLock ==
    /\ alive /\ reaper.pc = "wait"
    /\ now < MaxTime
    /\ NoWriter
    /\ now' = now + 1
    /\ lk' = [lk EXCEPT !.pending = Reaper]
    /\ reaper' = [reaper EXCEPT !.pc = "lockwait"]
    /\ UNCHANGED <<procVars, regVars, shutdownClosed, shut, sessVars, rtVars,
                   confVars>>

\* Lock() returns; the range over cm.containers starts
ReapLocked ==
    /\ alive /\ reaper.pc = "lockwait" /\ lk.pending = Reaper
    /\ lk.readers = {}
    /\ lockW' = Reaper
    /\ lk' = [lk EXCEPT !.pending = None]
    /\ reaper' = [reaper EXCEPT !.pc = "scan", !.todo = DOMAIN containers]
    /\ UNCHANGED <<procVars, containers, ucMutex, shutdownClosed, shut, sessVars,
                   rtVars, now, confVars>>

\* one iteration of the range: uc.mutex.Lock()
ReapMutexLock(u) ==
    /\ alive /\ reaper.pc = "scan" /\ lockW = Reaper
    /\ u \in reaper.todo
    /\ ucMutex[u] = None
    /\ ucMutex' = [ucMutex EXCEPT ![u] = Reaper]
    /\ reaper' = [reaper EXCEPT !.pc = "check", !.cur = u]
    /\ UNCHANGED <<procVars, containers, lockW, shutdownClosed, shut, sessVars,
                   rtVars, now, cfgVars>>

\* a reaper that leaves the mutex of an entry it does not remove locked
ReapEntryKeepsMutex(crOk, vrOk) ==
    LET u == reaper.cur IN
    /\ alive /\ reaper.pc = "check" /\ ucMutex[u] = Reaper
    /\ IF Exists(u) /\ IdleCond(containers[u])
       THEN /\ removeContainer(u, crOk, vrOk)
            /\ ucMutex' = [ucMutex EXCEPT ![u] = None]
       ELSE UNCHANGED <<rt, volumes, containers, rmCalls, ucMutex>>
    /\ reaper' = [reaper EXCEPT !.pc = "scan", !.todo = @ \ {u}]
    /\ UNCHANGED <<procVars, lockW, shutdownClosed, shut, sessVars, fs, started,
                   now, cfgVars>>

\* the idle test, removeContainer for an idle entry, uc.mutex.Unlock()
ReapEntry(crOk, vrOk) ==
    LET u == reaper.cur IN
    /\ alive /\ reaper.pc = "check" /\ ucMutex[u] = Reaper
    /\ IF Exists(u) /\ IdleCond(containers[u])
       THEN removeContainer(u, crOk, vrOk)
       ELSE UNCHANGED <<rt, volumes, containers, rmCalls>>
    /\ ucMutex' = [ucMutex EXCEPT ![u] = None]
    /\ reaper' = [reaper EXCEPT !.pc = "scan", !.todo = @ \ {u}]
    /\ UNCHANGED <<procVars, lockW, shutdownClosed, shut, sessVars, fs, started,
                   now, cfgVars>>

\* the range is over: the deferred Unlock()
ReapUnlock ==
    /\ alive /\ reaper.pc = "scan" /\ lockW = Reaper
    /\ reaper.todo = {}
    /\ lockW' = None
    /\ reaper' = [reaper EXCEPT !.pc = "wait"]
    /\ UNCHANGED <<procVars, containers, ucMutex, shutdownClosed, shut, sessVars,
                   rtVars, now, cfgVars>>

\* the daemon with nothing left from an earlier run and an idle timeout of 0
InitLocks ==
    /\ alive = TRUE
    /\ panicked = FALSE
    /\ containers = [x \in {} |-> 0]
    /\ ucMutex = [u \in Users |-> None]
    /\ lockW = None
    /\ shutdownClosed = FALSE
    /\ reaper = [pc |-> "wait", todo |-> {}, cur |-> "alice", refused |-> {}]
    /\ shut = [pc |-> "idle", kind |-> "signal", todo |-> {}, listed |-> {},
               refused |-> FALSE]
    /\ pc = [s \in Sessions |-> "init"]
    /\ user = [s \in Sessions |-> "alice"]
    /\ cid = [s \in Sessions |-> 0]
    /\ acq = [sess |-> 0, id |-> 0, result |-> "none", calls |-> {},
              rmRefused |-> FALSE, waiters |-> {}]
    /\ rt = {}
    /\ volumes = {}
    /\ fs = [u \in Users |-> "absent"]
    /\ started = {}
    /\ now = 0
    /\ idleTimeout = 0
    /\ networks = 1
    /\ rmCalls = <<>>
    /\ hs = [s \in Sessions |->
               [isPty |-> FALSE, exits |-> <<>>, releases |-> 0, stream |-> "none",
                reader |-> "none", writer |-> "none", resize |-> "none",
                ctxDone |-> FALSE, closed |-> FALSE]]
    /\ auth = [attempts |-> 0, requests |-> 0, sess |-> 0, resp |-> NoResponse,
               result |-> FALSE]
    /\ size = [in |-> DefaultSize, out |-> NotParsed]
    /\ lk = [readers |-> {}, pending |-> None]
    /\ io = [s \in Sessions |-> NoBytes]
    /\ env = NoEnv
    /\ win = [s \in Sessions |-> NoResize]

NextLocks ==
    \/ \E s \in Sessions, u \in Users : StartSession(s, u)
    \/ \E s \in Sessions : GOCLock(s)
    \/ \E s \in Sessions : GOCLocked(s)
    \/ \E s \in Sessions : GOCLookup(s)
    \/ \E s \in Sessions : GOCMutexLock(s)
    \/ \E s \in Sessions : GOCCount(s)
    \/ \E s \in Sessions, ok \in BOOLEAN : GOCCreate(s, ok)
    \/ \E s \in Sessions : RelCall(s)
    \/ \E s \in Sessions : RelRLock(s)
    \/ \E s \in Sessions : RelLookup(s)
    \/ \E s \in Sessions : RelMutexLock(s)
    \/ \E s \in Sessions : RelCount(s)
    \/ ReapLock
    \/ ReapLocked
    \/ \E u \in Users : ReapMutexLock(u)
    \/ \E crOk \in BOOLEAN, vrOk \in BOOLEAN : ReapEntry(crOk, vrOk)
    \/ ReapUnlock
    \/ ReaperStop
    \/ ShutdownCall("signal")
    \/ \E ok \in BOOLEAN : CleanupList(ok)
    \/ \E u \in Users, crOk \in BOOLEAN, vrOk \in BOOLEAN : CleanupRemove(u, crOk, vrOk)
    \/ ShutdownReturn

\* every goroutine that can take its next step is scheduled, the runtime
\* answers every call, and sync.Mutex and sync.RWMutex hand a free lock to a
\* goroutine that waits for it
FairLocks ==
    /\ \A s \in Sessions :
          /\ WF_vars(GOCLock(s)) /\ WF_vars(GOCLocked(s)) /\ WF_vars(GOCLookup(s))
          /\ WF_vars(GOCMutexLock(s)) /\ WF_vars(GOCCount(s))
          /\ WF_vars(\E ok \in BOOLEAN : GOCCreate(s, ok))
          /\ WF_vars(RelRLock(s)) /\ WF_vars(RelLookup(s))
          /\ WF_vars(RelMutexLock(s)) /\ WF_vars(RelCount(s))
    /\ WF_vars(ReapLocked)
    /\ WF_vars(\E u \in Users : ReapMutexLock(u))
    /\ WF_vars(\E crOk \in BOOLEAN, vrOk \in BOOLEAN : ReapEntry(crOk, vrOk))
    /\ WF_vars(ReapUnlock)

SpecLocks == InitLocks /\ [][NextLocks]_vars /\ FairLocks

\* the goroutines that take locks
Tasks == Sessions \cup {Reaper}

\* the task t holds cm.containersMutex, for writing or for reading
HoldsRegistryLock(t) == lockW = t \/ t \in lk.readers

\* the task t is inside a call of Lock or RLock on cm.containersMutex or of
\* Lock on a UserContainer mutex
WaitsForLock(t) ==
    IF t = Reaper
    THEN reaper.pc = "lockwait" \/ (reaper.pc = "scan" /\ reaper.todo # {})
    ELSE pc[t] \in {"acquire", "lockwait", "ctlock", "release", "relct"}

\* the steps that take a lock keep the order: the registry lock first, then
\* a UserContainer mutex
LockOrder ==
    /\ \A u \in Users :
          (ucMutex'[u] # ucMutex[u] /\ ucMutex'[u] # None) =>
              /\ ucMutex[u] = None
              /\ HoldsRegistryLock(ucMutex'[u])
              /\ lockW' = ucMutex'[u] \/ ucMutex'[u] \in lk'.readers
    /\ \A t \in Tasks :
          (~HoldsRegistryLock(t) /\ (HoldsRegistryLock(t)' \/ lk'.pending = t)) =>
              \A u \in Users : ucMutex[u] # t
    /\ \A u \in Users :
          ucMutex[u] # None => HoldsRegistryLock(ucMutex[u])

\* C28: a task takes a UserContainer mutex only while it holds
\* cm.containersMutex, takes cm.containersMutex only while it holds no
\* UserContainer mutex, and holds a UserContainer mutex only inside its hold of
\* cm.containersMutex; and every task that waits for a lock gets past the
\* call (or the process has exited).
C28_LockOrderNoDeadlock ==
    /\ [][LockOrder]_vars
    /\ \A t \in Tasks : WaitsForLock(t) ~> (~WaitsForLock(t) \/ ~alive)

\* the reaper holds the write lock and the mutex of alice's entry while a
\* handler of alice waits in ReleaseContainer and another one in
\* GetOrCreateContainer
C28_Witness ==
    /\ lockW = Reaper /\ reaper.pc = "check" /\ ucMutex["alice"] = Reaper
    /\ \E s1, s2 \in Sessions :
          /\ pc[s1] = "release" /\ user[s1] = "alice"
          /\ pc[s2] = "acquire" /\ user[s2] = "alice"

\* C29: every step that deletes an entry from cm.containers is taken while
\* the mutex of that entry is held and its ActiveStreams is 0.
C29_DeleteOnlyLockedAndIdle ==
    [][\A u \in DOMAIN containers :
          u \notin DOMAIN containers' =>
              /\ ucMutex[u] # None
              /\ containers[u].ActiveStreams = 0]_vars

\* the reaper is inside cleanupIdleContainers
Scanning == reaper.pc \in {"scan", "remove"}

\* C30: once Shutdown has closed cm.shutdownChan the reaper starts no scan,
\* and while CleanUpContainers lists and removes containers no scan of the
\* reaper is under way.
C30_ReaperStoppedBeforeCleanup ==
    [][/\ shutdownClosed => ~(~Scanning /\ Scanning')
       /\ shut.pc \in {"list", "remove"} => ~Scanning]_vars

\* -------------------------------------------- the two copies of a session
\* the k-th byte the client of session s writes, and the k-th frame the guest
\* of its exec makes on stdout (fd 1) or stderr (fd 2); with a PTY the exec
\* has one raw output, taken as fd 1
ClientByte(s, k) == [sess |-> s, n |-> k]
Frame(s, fd, k) == [sess |-> s, fd |-> fd, n |-> k]

\* the frames of a sequence that carry the stream fd
RECURSIVE OfStream(_, _)
OfStream(frames, fd) ==
    IF frames = <<>> THEN <<>>
    ELSE IF Head(frames).fd = fd THEN <<Head(frames)>> \o OfStream(Tail(frames), fd)
    ELSE OfStream(Tail(frames), fd)

\* the bytes the clients wrote and the frames the guests made, all sessions
RECURSIVE SumOver(_, _)
SumOver(f, S) ==
    IF S = {} THEN 0
    ELSE LET x == CHOOSE y \in S : TRUE IN f[x] + SumOver(f, S \ {x})

TotalSent == SumOver([s \in Sessions |-> io[s].sent], Sessions)
TotalMade == SumOver([s \in Sessions |-> Len(io[s].made)], Sessions)

\* the client writes a byte to its session's channel
ClientWrites(s) ==
    /\ alive /\ pc[s] \in {"exec", "pump"} /\ ~hs[s].closed
    /\ TotalSent < MaxBytes
    /\ io' = [io EXCEPT ![s].sent = @ + 1]
    /\ UNCHANGED <<procVars, regVars, shutdownClosed, reaper, shut, sessVars, rtVars,
                   now, idleTimeout, networks, auth, size, lk, env, win>>

\* the guest of the exec of session s writes to its stdout or stderr
GuestWrites(s, fd) ==
    /\ alive /\ hs[s].stream = "open" /\ RuntimeHas(cid[s])
    /\ TotalMade < MaxBytes
    /\ hs[s].isPty => fd = 1
    /\ io' = [io EXCEPT ![s].made = Append(@, Frame(s, fd, Len(@) + 1))]
    /\ UNCHANGED <<procVars, regVars, shutdownClosed, reaper, shut, sessVars, rtVars,
                   now, idleTimeout, networks, auth, size, lk, env, win>>

\* io.Copy(stream.Conn, sess), one round: Read returns the next n bytes of the
\* channel, Write passes them to the exec's stdin (a round whose Read or Write
\* fails delivers nothing and ends the copy: WriterEnds)
WriterCopy(s, n) ==
    /\ alive /\ hs[s].writer = "run" /\ hs[s].stream = "open"
    /\ n \in 1..(io[s].sent - io[s].rpos)
    /\ io' = [io EXCEPT
                 ![s].rpos = @ + n,
                 ![s].stdin = @ \o [i \in 1..n |-> ClientByte(s, io[s].rpos + i)]]
    /\ UNCHANGED <<procVars, regVars, shutdownClosed, reaper, shut, sessVars, rtVars,
                   now, idleTimeout, networks, auth, size, lk, env, win>>

\* a reader that copies every frame to the channel's stdout
ReaderCopyRaw(s, n) ==
    LET got == SubSeq(io[s].made, io[s].pos + 1, io[s].pos + n) IN
    /\ alive /\ hs[s].reader = "run" /\ hs[s].stream = "open" /\ ~hs[s].closed
    /\ n \in 1..(Len(io[s].made) - io[s].pos)
    /\ io' = [io EXCEPT ![s].pos = @ + n, ![s].out = @ \o got]
    /\ UNCHANGED <<procVars, regVars, shutdownClosed, reaper, shut, sessVars, rtVars,
                   now, idleTimeout, networks, auth, size, lk, env, win>>

\* the reader goroutine, one round: with a PTY io.Copy(sess, stream.Reader)
\* passes what it read to the channel; without one stdcopy.StdCopy passes the
\* frames of stdout to sess and those of stderr to sess.Stderr() (a round
\* whose Read or Write fails delivers nothing and ends the copy: ReaderEnds)
ReaderCopy(s, n) ==
    LET got == SubSeq(io[s].made, io[s].pos + 1, io[s].pos + n) IN
    /\ alive /\ hs[s].reader = "run" /\ hs[s].stream = "open" /\ ~hs[s].closed
    /\ n \in 1..(Len(io[s].made) - io[s].pos)
    /\ io' = [io EXCEPT
                 ![s].pos = @ + n,
                 ![s].out = IF hs[s].isPty THEN @ \o got ELSE @ \o OfStream(got, 1),
                 ![s].err = IF hs[s].isPty THEN @ ELSE @ \o OfStream(got, 2)]
    /\ UNCHANGED <<procVars, regVars, shutdownClosed, reaper, shut, sessVars, rtVars,
                   now, idleTimeout, networks, auth, size, lk, env, win>>

\* the sessions with the bytes their two copies move
NextPump ==
    \/ \E s \in Sessions, u \in Users : StartSession(s, u)
    \/ \E s \in Sessions : SessAcquire(s)
    \/ \E s \in Sessions, isPty \in BOOLEAN : SessExec(s, isPty)
    \/ \E s \in Sessions : ClientWrites(s)
    \/ \E s \in Sessions, fd \in {1, 2} : GuestWrites(s, fd)
    \/ \E s \in Sessions, n \in 1..MaxBytes : WriterCopy(s, n)
    \/ \E s \in Sessions, n \in 1..MaxBytes : ReaderCopy(s, n)
    \/ \E s \in Sessions, err \in BOOLEAN : ReaderEnds(s, err)
    \/ \E s \in Sessions : SessSelectOutput(s)

SpecPump == InitLocks /\ [][NextPump]_vars


\* s is a sequence that begins t
IsPrefix(s, t) == Len(s) <= Len(t) /\ s = SubSeq(t, 1, Len(s))

C32_EnvOnlyThroughExec ==
    /\ \A c \in rt : env.cont[c.id] = {}
    /\ \A s \in Sessions : pc[s] = "pump" => env.exec[s] = Environ(s)

\* two sessions of one user have their execs open in one container, each
\* with its own environment
C32_Witness ==
    /\ pc[1] = "pump" /\ pc[2] = "pump"
    /\ user[1] = user[2] /\ cid[1] = cid[2] /\ RuntimeHas(cid[1])
    /\ env.exec[1] = Environ(1) /\ env.exec[2] = Environ(2)
    /\ env.exec[1] # env.exec[2]


\* ------------------------------------------------ the window of a session
\* the client changes the size of its terminal: a window-change request, which
\* the SSH library puts into winCh
WindowChange(s) ==
    /\ alive /\ pc[s] = "pump" /\ hs[s].isPty /\ ~hs[s].closed
    /\ win[s].client < MaxWindows
    /\ win' = [win EXCEPT ![s].client = @ + 1, ![s].ch = Append(@, win[s].client + 1)]
    /\ UNCHANGED <<procVars, regVars, shutdownClosed, reaper, shut, sessVars, rtVars,
                   now, idleTimeout, networks, auth, size, lk, io, env>>

\* the resize goroutine, one round of for win := range winCh: ResizeExec with
\* the size received; an error is logged
ResizeForward(s, ok) ==
    /\ alive /\ hs[s].resize = "run"
    /\ win[s].ch # <<>>
    /\ ok => hs[s].stream = "open" /\ RuntimeHas(cid[s])
    /\ win' = [win EXCEPT ![s].ch = Tail(@),
                          ![s].exec = IF ok THEN Head(win[s].ch) ELSE @,
                          ![s].failed = @ \/ ~ok]
    /\ UNCHANGED <<procVars, regVars, shutdownClosed, reaper, shut, sessVars, rtVars,
                   now, idleTimeout, networks, auth, size, lk, io, env>>

\* "Set initial terminal size": ResizeExec with ptyReq.Window, after the
\* resize goroutine was started; an error is logged
InitialResize(s, ok) ==
    /\ alive /\ pc[s] = "pump" /\ hs[s].isPty
    /\ ~win[s].initial
    /\ ok => hs[s].stream = "open" /\ RuntimeHas(cid[s])
    /\ win' = [win EXCEPT ![s].initial = TRUE,
                          ![s].exec = IF ok THEN PtyWindow ELSE @,
                          ![s].failed = @ \/ ~ok]
    /\ UNCHANGED <<procVars, regVars, shutdownClosed, reaper, shut, sessVars, rtVars,
                   now, idleTimeout, networks, auth, size, lk, io, env>>

\* the handler reaches its select after the call for the initial size
ResizeSelectDone(s) ==
    /\ hs[s].isPty => win[s].initial
    /\ SessSelectDone(s)

\* the sessions with the resize calls of a PTY session
NextResize ==
    \/ \E s \in Sessions, u \in Users : StartSession(s, u)
    \/ \E s \in Sessions : SessAcquire(s)
    \/ \E s \in Sessions, isPty \in BOOLEAN : SessExec(s, isPty)
    \/ \E s \in Sessions : WindowChange(s)
    \/ \E s \in Sessions, ok \in BOOLEAN : ResizeForward(s, ok)
    \/ \E s \in Sessions, ok \in BOOLEAN : InitialResize(s, ok)
    \/ \E s \in Sessions : ClientCancels(s)
    \/ \E s \in Sessions : ResizeSelectDone(s)
    \/ \E s \in Sessions : ResizeEnds(s)

SpecResize == InitLocks /\ [][NextResize]_vars

\* C33: once the handler of a PTY session has made its call for the initial
\* size, the resize goroutine has forwarded every event of winCh and no resize
\* call failed, the exec has the size the client's terminal has
C33_LastSizeIsMostRecent ==
    \A s \in Sessions :
        (/\ hs[s].isPty /\ win[s].initial
         /\ win[s].ch = <<>> /\ ~win[s].failed)
        => win[s].exec = win[s].client


\* GetOrCreateContainer returns an id to the handler of session s
AcquireReturnsStep(s) == pc[s] \in {"acquire", "start"} /\ pc'[s] = "exec"

\* C34: while no shutdown has begun, whenever GetOrCreateContainer returns an
\* id the reaper is not at work on the registry and the runtime holds the
\* container of that id: it is not one the reaper has removed or is removing
C34_AcquireNeverReturnsReaped ==
    [][\A s \in Sessions :
          (AcquireReturnsStep(s) /\ shut.pc = "idle") =>
              /\ lockW # Reaper
              /\ reaper.pc # "remove"
              /\ \E c \in rt' : c.id = cid'[s]]_vars

\* the reaper removed the container a session of a user had acquired, and a
\* later session of that user holds a new container
C34_Witness ==
    /\ shut.pc = "idle"
    /\ rmCalls = RemovedCalls(TRUE)
    /\ \E s, t \in Sessions :
          /\ s # t /\ user[s] = user[t]
          /\ cid[t] # 0 /\ ~RuntimeHas(cid[t])
          /\ pc[s] = "exec" /\ cid[s] # cid[t] /\ RuntimeHas(cid[s])


\* an iteration of CleanUpContainers' loop: removeContainer looks the user up
\* in cm.containers and may delete the entry
CleanupMapStep == shut.pc = "remove" /\ shut'.todo # shut.todo

\* C35: the map cm.containers is read and written only under
\* cm.containersMutex: when Shutdown's cleanup looks up or deletes an entry,
\* no GetOrCreateContainer, ReleaseContainer or scan of the reaper is inside
\* its locked section on the same map
C35_MapAccessUnderLock ==
    [][CleanupMapStep => \A t \in Tasks : ~HoldsRegistryLock(t)]_vars


\* the entry of the user of session s is not the one its Acquire counted in:
\* it refers to another container
EntryReplaced(s) == Exists(user[s]) /\ containers[user[s]].ID # cid[s]

\* C36: the deferred ReleaseContainer of a session whose entry was removed
\* and replaced by an entry of a later session of the same user leaves the
\* count of the new entry as it is
C36_ReleaseOnlyOwnEntry ==
    [][\A s \in Sessions :
          (ReleaseStep(s) /\ EntryReplaced(s)) =>
              /\ user[s] \in DOMAIN containers'
              /\ containers'[user[s]].ActiveStreams =
                     containers[user[s]].ActiveStreams]_vars


\* the containers named sshcontainer-<u> that a GetOrCreateContainer of this
\* run created
MadeFor(u) == {c \in rt : c.user = u /\ c.id \in Sessions}

\* no GetOrCreateContainer is inside createContainer or ContainerStart
NoneCreating == lockW = None /\ \A s \in Sessions : ~Creating(s)

\* C37: a failed Acquire leaves nothing that blocks a later one: when no
\* Acquire is creating and a user has no entry, so that the next Acquire for
\* the user calls ContainerCreate with the name sshcontainer-<user>, the
\* runtime holds no container of that name left by an earlier Acquire
\* (unless the runtime refused the removal of the container)
C37_FailedAcquireLeavesNoResidue ==
    (NoneCreating /\ ~acq.rmRefused) =>
        \A u \in Users : ~Exists(u) => MadeFor(u) = {}


\* ---------------------------------- a container removed outside the daemon
\* somebody removes the container id with the runtime's own tools
RemovedOutside(id) ==
    /\ alive /\ RuntimeHas(id)
    /\ rt' = {c \in rt : c.id # id}
    /\ UNCHANGED <<procVars, regVars, shutdownClosed, reaper, shut, sessVars,
                   volumes, fs, started, rmCalls, now, cfgVars>>

\* the sessions and the reaper, with a runtime that others use too
NextGone ==
    \/ \E s \in Sessions, u \in Users : StartSession(s, u)
    \/ \E s \in Sessions : AcqReuse(s) /\ UNCHANGED hs
    \/ \E s \in Sessions : AcqMiss(s) /\ UNCHANGED hs
    \/ \E s \in Sessions, f \in VFSFailPoints : AcqCreateVFSMount(s, f) /\ UNCHANGED hs
    \/ \E s \in Sessions, ok \in BOOLEAN : AcqContainerCreate(s, ok) /\ UNCHANGED hs
    \/ \E s \in Sessions, ok \in BOOLEAN, rmOk \in BOOLEAN :
          AcqNetworkConnect(s, ok, rmOk) /\ UNCHANGED hs
    \/ \E s \in Sessions, ok \in BOOLEAN : AcqStart(s, ok) /\ UNCHANGED hs
    \/ \E s \in Sessions : ExecInContainer(s) /\ UNCHANGED hs
    \/ \E s \in Sessions : ExecFails(s) /\ UNCHANGED hs
    \/ \E s \in Sessions : SessionEnds(s) /\ UNCHANGED hs
    \/ ReaperTick
    \/ \E u \in Users : ReaperCheck(u)
    \/ \E crOk \in BOOLEAN, vrOk \in BOOLEAN : ReaperRemove(crOk, vrOk)
    \/ ReaperUnlock
    \/ \E id \in ContainerIDs : RemovedOutside(id)

SpecGone == Init /\ [][NextGone]_vars

\* C38: a scan of the reaper that reaches an idle entry whose container the
\* runtime no longer holds deletes the entry, so that the next Acquire for
\* the user creates a new container
C38_GoneEntryIsDeleted ==
    [][(/\ ReaperRemoveStep /\ Exists(reaper.cur)
        /\ ~RuntimeHas(containers[reaper.cur].ID))
       => reaper.cur \notin DOMAIN containers']_vars


\* C39: Shutdown can be invoked again after it was invoked once, by the
\* signal handler or by Server.Shutdown: no invocation ends the process with
\* a panic
C39_ShutdownTwice == shutdownClosed => ~panicked

====
